---- MODULE Spec2Model ----
(***************************************************************************)
(* A model of scripts/app_updater.py: the update checker that scrapes      *)
(* download pages, builds one release record per download link, compares   *)
(* each record's version with the persisted tracker and writes the report  *)
(* and the next tracker snapshot.                                          *)
(*                                                                         *)
(* Texts are sequences of characters.  A character is a one-letter string; *)
(* a Persian letter is written as its name ("FA_MIM").  CodeOrder lists    *)
(* the characters of the model in code-point order, as Python compares     *)
(* them.                                                                   *)
(***************************************************************************)
EXTENDS Integers, Sequences, FiniteSets, TLC

VARIABLES
    pc,                 \* position of main(): "start", "load", "pages", "done",
                        \* "exit1", "returned", "crashed"; "idle" when main() does not run
    url_file,           \* urls_to_check.txt: [exists, urls]
    tracker_file,       \* versions_tracker.json: [kind, data]
    urls_to_process,    \* the URLs of the run, in order
    page_idx,           \* index of the next URL of the for loop of main()
    tracker_data,       \* the snapshot load_tracker() returned
    all_updates_found,  \* the cumulative list of update records
    output_json,        \* updates_found.json: <<>> before it is written, <<list>> after
    log,                \* per handled URL, what main() logged and added
    fn,                 \* a function under test: its name and arguments
    ret                 \* the results of the function under test, in order

vars == <<pc, url_file, tracker_file, urls_to_process, page_idx, tracker_data,
          all_updates_found, output_json, log, fn, ret>>

----------------------------------------------------------------------------
(* Characters *)

Digits == <<"0", "1", "2", "3", "4", "5", "6", "7", "8", "9">>

UpperLetters ==
    <<"A", "B", "C", "D", "E", "F", "G", "H", "I", "J", "K", "L", "M",
      "N", "O", "P", "Q", "R", "S", "T", "U", "V", "W", "X", "Y", "Z">>

LowerLetters ==
    <<"a", "b", "c", "d", "e", "f", "g", "h", "i", "j", "k", "l", "m",
      "n", "o", "p", "q", "r", "s", "t", "u", "v", "w", "x", "y", "z">>

\* U+0627 .. U+06CC, in code-point order
PersianLetters ==
    <<"FA_ALEF", "FA_TE", "FA_KHE", "FA_DAL", "FA_RE", "FA_ZE", "FA_SIN",
      "FA_SHIN", "FA_SAD", "FA_AIN", "FA_FE", "FA_LAM", "FA_MIM", "FA_NUN",
      "FA_HE", "FA_VAV", "FA_PE", "FA_KAF", "FA_GAF", "FA_YE">>

\* every character of the model, in code-point order
CodeOrder ==
    <<" ", "(", ")", "-", ".", "/">> \o Digits \o <<":">> \o UpperLetters
    \o <<"[", "]", "_">> \o LowerLetters \o <<"|">> \o PersianLetters
    \o <<"EN_DASH", "EM_DASH">>

Range(s) == {s[i] : i \in 1..Len(s)}

Chars == Range(CodeOrder)

\* ord(c), up to an order-preserving renumbering
Ord == [c \in Chars |-> CHOOSE i \in 1..Len(CodeOrder) : CodeOrder[i] = c]

IsDigit(c) == c \in Range(Digits)

IsAsciiAlnum(c) == c \in Range(Digits) \cup Range(UpperLetters) \cup Range(LowerLetters)

\* \w of a str pattern
IsWord(c) == IsAsciiAlnum(c) \/ c = "_" \/ c \in Range(PersianLetters)

\* \s of a str pattern
IsSpace(c) == c = " "

LowerChar(c) ==
    IF c \in Range(UpperLetters)
    THEN LowerLetters[CHOOSE i \in 1..26 : UpperLetters[i] = c]
    ELSE c

\* str.lower()
Lower(s) == [i \in 1..Len(s) |-> LowerChar(s[i])]

DigitValue(c) == (CHOOSE i \in 1..10 : Digits[i] = c) - 1

SetMin(S) == CHOOSE x \in S : \A y \in S : x <= y

SetMax(S) == CHOOSE x \in S : \A y \in S : x >= y

\* s[i:j] of Python with 1-based i and exclusive 1-based j: characters i .. j-1
Slice(s, i, j) == [k \in 1..(j - i) |-> s[i + k - 1]]

\* s[i:i+len(w)] == w
MatchAt(s, i, w) ==
    /\ i >= 1
    /\ i + Len(w) - 1 <= Len(s)
    /\ \A k \in 1..Len(w) : s[i + k - 1] = w[k]

\* w in s
Contains(s, w) == \E i \in 1..(Len(s) - Len(w) + 1) : MatchAt(s, i, w)

\* the str comparison a > b: by code point, a proper prefix is the smaller
StrGreater(a, b) ==
    LET n == IF Len(a) < Len(b) THEN Len(a) ELSE Len(b)
        diff == {i \in 1..n : a[i] # b[i]}
    IN  IF diff = {}
        THEN Len(a) > Len(b)
        ELSE LET i == SetMin(diff) IN Ord[a[i]] > Ord[b[i]]

----------------------------------------------------------------------------
(* packaging.version.parse of packaging >= 22, where a string that is not a *)
(* PEP 440 version raises InvalidVersion.  The strings of the model hold    *)
(* no "!" and no "+", so a version has no epoch and no local part.          *)

Separators == {"-", "_", "."}

\* str.strip() of whitespace
RECURSIVE Strip(_)
Strip(s) ==
    IF s = <<>> THEN s
    ELSE IF IsSpace(s[1]) THEN Strip(Tail(s))
    ELSE IF IsSpace(s[Len(s)]) THEN Strip(SubSeq(s, 1, Len(s) - 1))
    ELSE s

\* the end (exclusive) of the longest run of digits that starts at p
DigitsEnd(s, p) ==
    SetMin({j \in p..(Len(s) + 1) : j = Len(s) + 1 \/ ~IsDigit(s[j])})

\* int(s[i:j])
RECURSIVE IntOf(_, _, _)
IntOf(s, i, j) ==
    IF j <= i THEN 0 ELSE 10 * IntOf(s, i, j - 1) + DigitValue(s[j - 1])

\* [0-9]+(?:\.[0-9]+)* at p, where s[p] is a digit
RECURSIVE ReleaseFrom(_, _)
ReleaseFrom(s, p) ==
    LET e == DigitsEnd(s, p)
        n == IntOf(s, p, e)
    IN  IF e + 1 <= Len(s) /\ s[e] = "." /\ IsDigit(s[e + 1])
        THEN LET r == ReleaseFrom(s, e + 1)
             IN  [nums |-> <<n>> \o r.nums, end |-> r.end]
        ELSE [nums |-> <<n>>, end |-> e]

PreWords ==
    <<<<"a", "l", "p", "h", "a">>, <<"a">>, <<"b", "e", "t", "a">>, <<"b">>,
      <<"p", "r", "e", "v", "i", "e", "w">>, <<"p", "r", "e">>, <<"c">>,
      <<"r", "c">>>>

PostWords == <<<<"p", "o", "s", "t">>, <<"r", "e", "v">>, <<"r">>>>

DevWords == <<<<"d", "e", "v">>>>

\* [-_\.]?(word|...)[-_\.]?([0-9]+)? at p: the first word of the alternation
\* that matches, then the separator and the number, each taken when present
Labelled(s, p, words) ==
    LET q0 == IF p <= Len(s) /\ s[p] \in Separators THEN p + 1 ELSE p
        hits == {k \in 1..Len(words) : MatchAt(s, q0, words[k])}
    IN  IF hits = {}
        THEN [ok |-> FALSE, word |-> <<>>, n |-> 0, end |-> p]
        ELSE LET w == words[SetMin(hits)]
                 q1 == q0 + Len(w)
                 q2 == IF q1 <= Len(s) /\ s[q1] \in Separators THEN q1 + 1 ELSE q1
                 e == DigitsEnd(s, q2)
             IN  [ok |-> TRUE, word |-> w, n |-> IntOf(s, q2, e), end |-> e]

\* the post release: -N, or a labelled one
PostAt(s, p) ==
    IF p + 1 <= Len(s) /\ s[p] = "-" /\ IsDigit(s[p + 1])
    THEN LET e == DigitsEnd(s, p + 1)
         IN  [ok |-> TRUE, word |-> <<>>, n |-> IntOf(s, p + 1, e), end |-> e]
    ELSE Labelled(s, p, PostWords)

\* _parse_letter_version: alpha -> a, beta -> b, c | pre | preview -> rc,
\* ranked a < b < rc
PreRank(w) ==
    IF w[1] = "a" THEN 1 ELSE IF w[1] = "b" THEN 2 ELSE 3

RECURSIVE DropTrailingZeros(_)
DropTrailingZeros(nums) ==
    IF nums # <<>> /\ nums[Len(nums)] = 0
    THEN DropTrailingZeros(SubSeq(nums, 1, Len(nums) - 1))
    ELSE nums

\* Version(text): [ok |-> FALSE] for InvalidVersion, else the comparison key of
\* _cmpkey: the release without its trailing zeros, then (pre, post, dev), where
\* a missing pre is above every pre (below, for a bare dev release), a missing
\* post below every post and a missing dev above every dev
VersionKey(s, rel, pre, post, dev) ==
    IF dev.end # Len(s) + 1
    THEN [ok |-> FALSE]
    ELSE [ok |-> TRUE,
          release |-> DropTrailingZeros(rel.nums),
          rest |-> << IF pre.ok THEN PreRank(pre.word)
                      ELSE IF ~post.ok /\ dev.ok THEN 0 ELSE 4,
                      pre.n,
                      IF post.ok THEN 1 ELSE 0,
                      post.n,
                      IF dev.ok THEN 0 ELSE 1,
                      dev.n >>]

\* the segments of VERSION_PATTERN in order: release, pre, post, dev, and then
\* the end of the text
ParseDev(s, rel, pre, post) ==
    VersionKey(s, rel, pre, post, Labelled(s, post.end, DevWords))

ParsePost(s, rel, pre) == ParseDev(s, rel, pre, PostAt(s, pre.end))

ParsePre(s, rel) == ParsePost(s, rel, Labelled(s, rel.end, PreWords))

ParseRelease(s, p0) ==
    IF ~(p0 <= Len(s) /\ IsDigit(s[p0]))
    THEN [ok |-> FALSE]
    ELSE ParsePre(s, ReleaseFrom(s, p0))

\* the text is stripped and lowered and may start with v
ParseLowered(s) == ParseRelease(s, IF s # <<>> /\ s[1] = "v" THEN 2 ELSE 1)

parse(text) == ParseLowered(Lower(Strip(text)))

\* the comparison of two tuples of integers: -1, 0 or 1
RECURSIVE CmpSeq(_, _)
CmpSeq(a, b) ==
    IF a = <<>> THEN (IF b = <<>> THEN 0 ELSE -1)
    ELSE IF b = <<>> THEN 1
    ELSE IF a[1] < b[1] THEN -1
    ELSE IF a[1] > b[1] THEN 1
    ELSE CmpSeq(Tail(a), Tail(b))

\* the comparison of two parsed versions: -1, 0 or 1
CmpVersion(x, y) ==
    LET r == CmpSeq(x.release, y.release)
    IN  IF r # 0 THEN r ELSE CmpSeq(x.rest, y.rest)

SENTINEL == <<"0", ".", "0", ".", "0">>

\* a faulty comparison: no tie-break on the raw strings
CompareParsedNoTieBreak(current_v_str, last_v_str, parsed_current, parsed_last) ==
    IF parsed_current.ok /\ parsed_last.ok
    THEN CmpVersion(parsed_current, parsed_last) > 0
    ELSE current_v_str # last_v_str
         /\ StrGreater(current_v_str, last_v_str)

\* lines 50-66 and 67-70: the comparison of the parsed versions, the raw
\* strings when they are equal, and the raw strings when InvalidVersion is
\* raised for either
CompareParsed(current_v_str, last_v_str, parsed_current, parsed_last) ==
    IF parsed_current.ok /\ parsed_last.ok
    THEN IF CmpVersion(parsed_current, parsed_last) > 0 THEN TRUE
         ELSE IF CmpVersion(parsed_current, parsed_last) < 0 THEN FALSE
         ELSE IF current_v_str # last_v_str
              THEN StrGreater(current_v_str, last_v_str)
              ELSE FALSE
    ELSE current_v_str # last_v_str
         /\ StrGreater(current_v_str, last_v_str)

\* a faulty compare_versions: no shortcut for a version never seen
compare_versions_no_bootstrap(current_v_str, last_v_str) ==
    IF current_v_str = <<>> THEN FALSE
    ELSE CompareParsed(current_v_str, last_v_str,
                       parse(current_v_str), parse(last_v_str))

compare_versions(current_v_str, last_v_str) ==
    IF current_v_str = <<>> THEN FALSE
    ELSE IF last_v_str = <<>> \/ last_v_str = SENTINEL THEN TRUE
    ELSE CompareParsed(current_v_str, last_v_str,
                       parse(current_v_str), parse(last_v_str))

----------------------------------------------------------------------------
(* sanitize_text *)

\* str.replace(old, new) for a one-character old
ReplaceChar(s, old, new) == [i \in 1..Len(s) |-> IF s[i] = old THEN new ELSE s[i]]

\* text.replace(EN DASH, '-').replace(EM DASH, '-')
UnifyDashes(s) == ReplaceChar(ReplaceChar(s, "EN_DASH", "-"), "EM_DASH", "-")

\* the characters of r'[<>:"/\\|?*()\[\]]' that the model holds
FilenameIllegal == {":", "/", "|", "(", ")", "[", "]"}

Brackets == {"(", ")", "[", "]"}

\* re.sub of one character class by a one-character string
SubClass(s, class, new) == [i \in 1..Len(s) |-> IF s[i] \in class THEN new ELSE s[i]]

\* re.sub of one character class by ''
RECURSIVE DeleteClass(_, _)
DeleteClass(s, class) ==
    IF s = <<>> THEN s
    ELSE IF s[1] \in class THEN DeleteClass(Tail(s), class)
    ELSE <<s[1]>> \o DeleteClass(Tail(s), class)

\* re.sub(r'c+', new, s) for the characters c of class: each maximal run
\* becomes one new
RECURSIVE CollapseRuns(_, _, _)
CollapseRuns(s, class, new) ==
    IF s = <<>> THEN s
    ELSE IF s[1] \in class
    THEN IF Len(s) >= 2 /\ s[2] \in class
         THEN CollapseRuns(Tail(s), class, new)
         ELSE <<new>> \o CollapseRuns(Tail(s), class, new)
    ELSE <<s[1]>> \o CollapseRuns(Tail(s), class, new)

\* str.replace(old, new) for a two-character old and a one-character new:
\* the occurrences are taken from the left and do not overlap, and the text
\* is not scanned again
RECURSIVE ReplacePair(_, _, _)
ReplacePair(s, old, new) ==
    IF Len(s) < 2 THEN s
    ELSE IF s[1] = old[1] /\ s[2] = old[2]
    THEN <<new>> \o ReplacePair(Tail(Tail(s)), old, new)
    ELSE <<s[1]>> \o ReplacePair(Tail(s), old, new)

\* str.strip(c)
RECURSIVE StripChar(_, _)
StripChar(s, c) ==
    IF s = <<>> THEN s
    ELSE IF s[1] = c THEN StripChar(Tail(s), c)
    ELSE IF s[Len(s)] = c THEN StripChar(SubSeq(s, 1, Len(s) - 1), c)
    ELSE s

\* re.sub(r'\s*\((?:farsroid\.com|www\.farsroid\.com|.*?)\)\s*$', '', s) of a
\* stripped single-line s: when s ends with ")" and holds a "(" before it, the
\* match runs from the white space before the leftmost "(" to the end
StripAttribution(s) ==
    LET opens == {i \in 1..(Len(s) - 1) : s[i] = "("}
    IN  IF s # <<>> /\ s[Len(s)] = ")" /\ opens # {}
        THEN LET i == SetMin(opens)
                 ws == {k \in 1..i : \A j \in k..(i - 1) : IsSpace(s[j])}
             IN  SubSeq(s, 1, SetMin(ws) - 1)
        ELSE s

sanitize_text(text, for_filename) ==
    IF text = <<>> THEN <<>>
    ELSE LET t1 == Strip(StripAttribution(Strip(text)))
             t2 == UnifyDashes(Lower(t1))
         IN  IF for_filename
             THEN LET t3 == SubClass(t2, FilenameIllegal, "_")
                      t4 == CollapseRuns(t3, {" "}, "_")
                      t5 == ReplacePair(ReplacePair(t4, <<"-", "_">>, "_"),
                                        <<"_", "-">>, "_")
                      t6 == CollapseRuns(t5, {"_"}, "_")
                  IN  StripChar(t6, "_")
             ELSE LET t3 == DeleteClass(t2, Brackets)
                      t4 == CollapseRuns(t3, {" "}, "_")
                  IN  StripChar(t4, "_")

----------------------------------------------------------------------------
(* extract_version_from_text_or_url *)

\* the end (exclusive) of the longest run of [a-zA-Z0-9] that starts at p
AlnumEnd(s, p) ==
    SetMin({j \in p..(Len(s) + 1) : j = Len(s) + 1 \/ ~IsAsciiAlnum(s[j])})

\* the ends of (?:[seps]?[a-zA-Z0-9]+)* from e, each run taken whole
RECURSIVE RunEnds(_, _, _)
RunEnds(s, e, seps) ==
    LET q == IF e <= Len(s) /\ s[e] \in seps THEN e + 1 ELSE e
        r == AlnumEnd(s, q)
    IN  IF r > q THEN {e} \cup RunEnds(s, r, seps) ELSE {e}

\* (?<![\w.-]) before position i
LookbehindOk(s, i) == i = 1 \/ ~(IsWord(s[i - 1]) \/ s[i - 1] \in {".", "-"})

\* (?![.\w]) at position e
LookaheadOk(s, e) == e = Len(s) + 1 \/ ~(IsWord(s[e]) \/ s[e] = ".")

\* the end of \d+\.\d+ at j with both runs of digits taken whole, 0 for none
TwoNumbersEnd(s, j) ==
    LET d1 == DigitsEnd(s, j)
    IN  IF j <= Len(s) /\ d1 > j /\ d1 + 1 <= Len(s) /\ s[d1] = "."
           /\ IsDigit(s[d1 + 1])
        THEN DigitsEnd(s, d1 + 1)
        ELSE 0

\* where the body of a strict pattern starts for a match that starts at i:
\* after the optional v or V
BodyStart(s, i) == IF i <= Len(s) /\ s[i] \in {"v", "V"} THEN i + 1 ELSE i

\* the ends at which
\*   (\d+(?:\.\d+){1,3}(?:(?:[-._]?[a-zA-Z0-9]+)+)?)(?![.\w])
\* can match from j.  A third or fourth number is also a run of the suffix,
\* and an end inside a run has a word character after it.
StrictEnds1From(s, e0) ==
    IF e0 = 0 THEN {}
    ELSE {e \in RunEnds(s, e0, {"-", ".", "_"}) : LookaheadOk(s, e)}

StrictEnds1(s, j) == StrictEnds1From(s, TwoNumbersEnd(s, j))

\* the ends at which (\d+(?:\.\d+){1,2})(?![.\w]) can match from j, where
\* e0 is the end of the first two numbers
StrictEnds2From(s, e0) ==
    {e \in {e0, IF e0 # 0 /\ e0 + 1 <= Len(s) /\ s[e0] = "."
                   /\ IsDigit(s[e0 + 1])
                THEN DigitsEnd(s, e0 + 1) ELSE 0} :
        e # 0 /\ LookaheadOk(s, e)}

StrictEnds2(s, j) == StrictEnds2From(s, TwoNumbersEnd(s, j))

\* the ends at which version_regex_patterns[k] can match from j
StrictEnds(s, j, k) == IF k = 1 THEN StrictEnds1(s, j) ELSE StrictEnds2(s, j)

\* group(1) of the match of version_regex_patterns[k] whose body starts at j:
\* greedy matching makes it the longest
LongestFrom(s, j, k) == Slice(s, j, SetMax(StrictEnds(s, j, k)))

\* group(1) of the leftmost match among the starts, <<>> for no match
LeftmostMatch(s, k, starts) ==
    IF starts = {} THEN <<>>
    ELSE LongestFrom(s, BodyStart(s, SetMin(starts)), k)

\* re.search(version_regex_patterns[k], s): group(1) of the leftmost match,
\* <<>> for no match
StrictSearch(s, k) ==
    LeftmostMatch(s, k,
        {i \in 1..Len(s) :
            LookbehindOk(s, i) /\ StrictEnds(s, BodyStart(s, i), k) # {}})

\* group(1) of the match of the fallback pattern that starts at i
FallbackFrom(s, i) ==
    Slice(s, i, SetMax(RunEnds(s, TwoNumbersEnd(s, i), {".", "-"})))

\* the match among the starts of the fallback pattern, <<>> for no match
FallbackLeftmost(s, starts) ==
    IF starts = {} THEN <<>> ELSE FallbackFrom(s, SetMin(starts))

\* re.search(fallback_pattern, s) for
\*   (\d+\.\d+(?:\.\d+){0,2}(?:[.-]?[a-zA-Z0-9]+)*)
FallbackSearch(s) ==
    FallbackLeftmost(s, {i \in 1..Len(s) : TwoNumbersEnd(s, i) # 0})

\* "if match: return ..." and otherwise the next search: None is <<>>
OrElse(found, next) == IF found # <<>> THEN found ELSE next

\* for pattern in version_regex_patterns, from the k-th: the first match
RECURSIVE StrictFrom(_, _)
StrictFrom(s, k) ==
    IF k > 2 THEN <<>> ELSE OrElse(StrictSearch(s, k), StrictFrom(s, k + 1))

\* the first pattern of version_regex_patterns that matches s
StrictFirst(s) == StrictFrom(s, 1)

\* lines 207-227 with the two strict loops exchanged: the URL before the text
extract_version_url_first(text_content, url_content) ==
    OrElse(StrictFirst(url_content),
           OrElse(StrictFirst(text_content),
                  OrElse(FallbackSearch(text_content),
                         FallbackSearch(url_content))))

\* None is <<>>: the caller tests "not current_version"
extract_version_from_text_or_url(text_content, url_content) ==
    OrElse(StrictFirst(text_content),
           OrElse(StrictFirst(url_content),
                  OrElse(FallbackSearch(text_content),
                         FallbackSearch(url_content))))

----------------------------------------------------------------------------
(* scrape_farsroid_page: the variant of a download link (lines 279-354) *)

\* str.replace(old, '') for a non-empty old
RECURSIVE RemoveAll(_, _)
RemoveAll(s, old) ==
    IF s = <<>> THEN s
    ELSE IF MatchAt(s, 1, old) THEN RemoveAll(Slice(s, Len(old) + 1, Len(s) + 1), old)
    ELSE <<s[1]>> \o RemoveAll(Tail(s), old)

\* any(k in s for k in keywords)
ContainsAny(s, keywords) == \E k \in keywords : Contains(s, k)

\* str.startswith / str.endswith
StartsWith(s, w) == MatchAt(s, 1, w)

EndsWith(s, w) == MatchAt(s, Len(s) - Len(w) + 1, w)

\* (filename.lower() + " " + link_text.lower()).replace('(farsroid.com)', '')
CombinedText(filename_from_url_decoded, link_text) ==
    RemoveAll(Lower(filename_from_url_decoded) \o <<" ">> \o Lower(link_text),
              <<"(", "f", "a", "r", "s", "r", "o", "i", "d", ".", "c", "o", "m", ")">>)

\* ".zip" if download_url.lower().endswith(".zip") else ".apk"
FileExtension(filename_from_url_decoded) ==
    IF EndsWith(Lower(filename_from_url_decoded), <<".", "z", "i", "p">>) THEN <<".", "z", "i", "p">> ELSE <<".", "a", "p", "k">>

\* lines 285-290: the build type
BuildTypeParts(combined_text_for_variant) ==
    IF  ContainsAny(combined_text_for_variant,
                    {<<"m", "o", "d", "-", "e", "x", "t", "r", "a">>,
                     <<"FA_MIM", "FA_VAV", "FA_DAL", " ", "FA_ALEF", "FA_KAF", "FA_SIN", "FA_TE", "FA_RE", "FA_ALEF">>,
                     <<"FA_MIM", "FA_VAV", "FA_DAL", "FA_ALEF", "FA_KAF", "FA_SIN", "FA_TE", "FA_RE", "FA_ALEF">>})
    THEN <<<<"M", "o", "d", "-", "E", "x", "t", "r", "a">>>>
    ELSE IF ContainsAny(combined_text_for_variant,
                    {<<"m", "o", "d", "-", "l", "i", "t", "e">>,
                     <<"FA_MIM", "FA_VAV", "FA_DAL", " ", "FA_LAM", "FA_ALEF", "FA_YE", "FA_TE">>,
                     <<"FA_MIM", "FA_VAV", "FA_DAL", "FA_LAM", "FA_ALEF", "FA_YE", "FA_TE">>})
    THEN <<<<"M", "o", "d", "-", "L", "i", "t", "e">>>>
    ELSE IF ContainsAny(combined_text_for_variant,
                    {<<"m", "o", "d">>,
                     <<"FA_MIM", "FA_VAV", "FA_DAL", " ", "FA_SHIN", "FA_DAL", "FA_HE">>,
                     <<"FA_MIM", "FA_VAV", "FA_DAL">>})
    THEN <<<<"M", "o", "d">>>>
    ELSE <<>>

\* lines 292-294
PremiumParts(combined_text_for_variant, variant_parts) ==
    IF  /\ ContainsAny(combined_text_for_variant,
                    {<<"p", "r", "e", "m", "i", "u", "m">>,
                     <<"FA_PE", "FA_RE", "FA_MIM", "FA_YE", "FA_VAV", "FA_MIM">>})
        /\ ~\E i \in 1..Len(variant_parts) : StartsWith(Lower(variant_parts[i]), <<"m", "o", "d">>)
    THEN <<<<"P", "r", "e", "m", "i", "u", "m">>>>
    ELSE <<>>

\* lines 296-297
LiteParts(combined_text_for_variant, variant_parts) ==
    IF  /\ ~\E i \in 1..Len(variant_parts) : Contains(Lower(variant_parts[i]), <<"l", "i", "t", "e">>)
        /\ ContainsAny(combined_text_for_variant,
                    {<<"l", "i", "t", "e">>,
                     <<"FA_LAM", "FA_ALEF", "FA_YE", "FA_TE">>})
    THEN <<<<"L", "i", "t", "e">>>>
    ELSE <<>>

\* lines 300-305
LanguageParts(combined_text_for_variant, variant_parts) ==
    IF  ContainsAny(combined_text_for_variant,
                    {<<"p", "e", "r", "s", "i", "a", "n">>,
                     <<"FA_FE", "FA_ALEF", "FA_RE", "FA_SIN", "FA_YE">>})
    THEN <<<<"P", "e", "r", "s", "i", "a", "n">>>>
    ELSE IF /\ ContainsAny(combined_text_for_variant,
                    {<<"e", "n", "g", "l", "i", "s", "h">>,
                     <<"FA_ALEF", "FA_NUN", "FA_GAF", "FA_LAM", "FA_YE", "FA_SIN", "FA_YE">>})
            /\ ~\E i \in 1..Len(variant_parts) : Contains(variant_parts[i], <<"P", "e", "r", "s", "i", "a", "n">>)
    THEN <<<<"E", "n", "g", "l", "i", "s", "h">>>>
    ELSE <<>>

\* lines 308-314: arch_found is true exactly when a part is added
ArchParts(combined_text_for_variant) ==
    IF  ContainsAny(combined_text_for_variant,
                    {<<"a", "r", "m", "6", "4", "-", "v", "8", "a">>,
                     <<"a", "r", "m", "6", "4">>})
    THEN <<<<"A", "r", "m", "6", "4", "-", "v", "8", "a">>>>
    ELSE IF ContainsAny(combined_text_for_variant,
                    {<<"a", "r", "m", "e", "a", "b", "i", "-", "v", "7", "a">>,
                     <<"a", "r", "m", "v", "7">>})
    THEN <<<<"A", "r", "m", "e", "a", "b", "i", "-", "v", "7", "a">>>>
    ELSE IF Contains(combined_text_for_variant, <<"a", "r", "m">>) THEN <<<<"A", "r", "m">>>>
    ELSE IF Contains(combined_text_for_variant, <<"x", "8", "6", "_", "6", "4">>) THEN <<<<"x", "8", "6", "_", "6", "4">>>>
    ELSE IF Contains(combined_text_for_variant, <<"x", "8", "6">>) THEN <<<<"x", "8", "6">>>>
    ELSE <<>>

\* lines 319-325: a zip with no part yet is Windows or Data
ZipParts(combined_text_for_variant, variant_parts) ==
    IF  ContainsAny(combined_text_for_variant,
                    {<<"w", "i", "n", "d", "o", "w", "s">>,
                     <<"FA_VAV", "FA_YE", "FA_NUN", "FA_DAL", "FA_VAV", "FA_ZE">>})
    THEN (IF variant_parts = <<>> THEN <<<<"W", "i", "n", "d", "o", "w", "s">>>> ELSE <<>>)
    ELSE IF ContainsAny(combined_text_for_variant,
                    {<<"d", "a", "t", "a">>,
                     <<"FA_DAL", "FA_YE", "FA_TE", "FA_ALEF">>,
                     <<"o", "b", "b">>})
    THEN (IF variant_parts = <<>> THEN <<<<"D", "a", "t", "a">>>> ELSE <<>>)
    ELSE IF variant_parts = <<>> THEN <<<<"D", "a", "t", "a">>>>
    ELSE <<>>

\* lines 328-332: an apk with no part and no architecture
ApkParts(combined_text_for_variant) ==
    IF  ContainsAny(combined_text_for_variant,
                    {<<"u", "n", "i", "v", "e", "r", "s", "a", "l">>,
                     <<"FA_ALEF", "FA_SAD", "FA_LAM", "FA_YE">>,
                     <<"o", "r", "i", "g", "i", "n", "a", "l">>,
                     <<"FA_MIM", "FA_AIN", "FA_MIM", "FA_VAV", "FA_LAM", "FA_YE">>})
    THEN <<<<"U", "n", "i", "v", "e", "r", "s", "a", "l">>>>
    ELSE IF Contains(combined_text_for_variant, <<"m", "a", "i", "n">>) THEN <<<<"M", "a", "i", "n">>>>
    ELSE <<>>

\* lines 327-332: the parts after the apk keywords
AfterZip(combined_text_for_variant, file_extension, variant_parts, arch) ==
    IF file_extension = <<".", "a", "p", "k">> /\ variant_parts = <<>>
       /\ arch = <<>>
    THEN ApkParts(combined_text_for_variant)
    ELSE variant_parts

\* lines 316-325: the parts after the architecture and the zip keywords
AfterArch(combined_text_for_variant, file_extension, variant_parts, arch) ==
    AfterZip(combined_text_for_variant, file_extension,
             IF file_extension = <<".", "z", "i", "p">>
             THEN (variant_parts \o arch)
                  \o ZipParts(combined_text_for_variant, variant_parts \o arch)
             ELSE variant_parts \o arch,
             arch)

\* lines 299-314: the parts after the language, then the architecture
AfterLite(combined_text_for_variant, file_extension, variant_parts) ==
    AfterArch(combined_text_for_variant, file_extension,
              variant_parts
              \o LanguageParts(combined_text_for_variant, variant_parts),
              ArchParts(combined_text_for_variant))

\* lines 296-297: the parts after Lite
AfterPremium(combined_text_for_variant, file_extension, variant_parts) ==
    AfterLite(combined_text_for_variant, file_extension,
              variant_parts \o LiteParts(combined_text_for_variant, variant_parts))

\* lines 292-294: the parts after Premium
AfterBuildType(combined_text_for_variant, file_extension, variant_parts) ==
    AfterPremium(combined_text_for_variant, file_extension,
                 variant_parts
                 \o PremiumParts(combined_text_for_variant, variant_parts))

\* variant_parts at line 335: each step of lines 285-332 appends to the list
\* the steps before it built
VariantParts(combined_text_for_variant, file_extension) ==
    AfterBuildType(combined_text_for_variant, file_extension,
                   BuildTypeParts(combined_text_for_variant))

\* sorted(set): the strings of S in ascending str order
RECURSIVE SortedStrings(_)
SortedStrings(S) ==
    IF S = {} THEN <<>>
    ELSE LET m == CHOOSE x \in S : \A y \in S : ~StrGreater(x, y)
         IN  <<m>> \o SortedStrings(S \ {m})

\* sep.join(parts)
RECURSIVE Join(_, _)
Join(parts, sep) ==
    IF parts = <<>> THEN <<>>
    ELSE IF Len(parts) = 1 THEN parts[1]
    ELSE parts[1] \o sep \o Join(Tail(parts), sep)

\* variant_final for the sorted parts (lines 338-352)
VariantName(link_text, filename_from_url_decoded, file_extension, unique_variant_parts) ==
    IF unique_variant_parts = <<>>
    THEN IF file_extension = <<".", "a", "p", "k">>
         THEN IF ContainsAny(link_text,
                    {<<"FA_ALEF", "FA_SAD", "FA_LAM", "FA_YE">>,
                     <<"FA_MIM", "FA_AIN", "FA_MIM", "FA_VAV", "FA_LAM", "FA_YE">>})
              THEN <<"U", "n", "i", "v", "e", "r", "s", "a", "l">>
              ELSE IF ContainsAny(Lower(filename_from_url_decoded),
                    {<<"u", "n", "i", "v", "e", "r", "s", "a", "l">>,
                     <<"m", "a", "i", "n">>})
              THEN <<"U", "n", "i", "v", "e", "r", "s", "a", "l">>
              ELSE <<"D", "e", "f", "a", "u", "l", "t">>
         ELSE <<"D", "e", "f", "a", "u", "l", "t">>
    ELSE Join(unique_variant_parts, <<"-">>)

\* line 337 without sorted(): the parts in the order the steps added them
UnsortedVariantParts(variant_parts) ==
    SelectSeq(variant_parts, LAMBDA p : p # <<>>)

\* sorted(list(set(p for p in variant_parts if p))) (line 337)
UniqueVariantParts(variant_parts) ==
    SortedStrings({p \in Range(variant_parts) : p # <<>>})

\* variant_final (lines 279-354)
VariantFinal(link_text, filename_from_url_decoded) ==
    VariantName(link_text, filename_from_url_decoded,
                FileExtension(filename_from_url_decoded),
                UniqueVariantParts(
                    VariantParts(
                        CombinedText(filename_from_url_decoded, link_text),
                        FileExtension(filename_from_url_decoded))))

----------------------------------------------------------------------------
(* scrape_farsroid_page: the release record of a download link *)

\* \b at position e of s: between s[e - 1] and s[e]
WordBoundary(s, e) ==
    (e - 1 >= 1 /\ e - 1 <= Len(s) /\ IsWord(s[e - 1]))
        # (e <= Len(s) /\ IsWord(s[e]))

\* the end (exclusive) of the match of
\*   r'\s*[vV]?' + re.escape(version) + r'\b'   (re.IGNORECASE)
\* that starts at the head of s, 0 for none: the white space is taken whole,
\* since neither v nor the version starts with white space
VersionMatchEnd(s, version) ==
    LET q == SetMin({j \in 1..(Len(s) + 1) : j = Len(s) + 1 \/ ~IsSpace(s[j])})
        v == IF q <= Len(s) /\ s[q] \in {"v", "V"} THEN q + 1 ELSE q
        Hit(j) == /\ MatchAt(Lower(s), j, Lower(version))
                  /\ WordBoundary(s, j + Len(version))
    IN  IF Hit(v) THEN v + Len(version)
        ELSE IF Hit(q) THEN q + Len(version)
        ELSE 0

\* re.sub(r'\s*[vV]?' + re.escape(version) + r'\b', '', s, flags=re.IGNORECASE)
\* for a non-empty version
RECURSIVE RemoveVersion(_, _)
RemoveVersion(s, version) ==
    IF s = <<>> THEN s
    ELSE LET e == VersionMatchEnd(s, version)
         IN  IF e # 0
             THEN RemoveVersion(Slice(s, e, Len(s) + 1), version)
             ELSE <<s[1]>> \o RemoveVersion(Tail(s), version)

DashChars == {"-", "EN_DASH", "EM_DASH"}

\* re.split(r'\s*[-EN_DASH EM_DASH]\s*', s, 1)[0].strip(): the text before
\* the first dash
BeforeFirstDash(s) ==
    LET dashes == {i \in 1..Len(s) : s[i] \in DashChars}
    IN  IF dashes = {} THEN Strip(s)
        ELSE Strip(SubSeq(s, 1, SetMin(dashes) - 1))

\* if not base_app_name_for_id: base_app_name_for_id = "App" (line 366)
OrApp(base_app_name_for_id) ==
    IF base_app_name_for_id = <<>> THEN <<"A", "p", "p">>
    ELSE base_app_name_for_id

\* base_app_name_for_id (lines 362-366)
BaseAppNameForId(page_app_name_full, current_version) ==
    OrApp(BeforeFirstDash(
              Strip(RemoveVersion(page_app_name_full, current_version))))

\* re.sub(r'_+', '_', s).strip('_')
FinalCleanup(s) == StripChar(CollapseRuns(s, {"_"}, "_"), "_")

\* tracking_id for a base name and a variant (lines 369-373)
TrackingIdOf(base_app_name_for_id, variant_final) ==
    LET tracking_id_app_part == sanitize_text(base_app_name_for_id, FALSE)
        tracking_id_variant_part == sanitize_text(variant_final, FALSE)
    IN  FinalCleanup(Lower(tracking_id_app_part \o <<"_">>
                           \o tracking_id_variant_part))

GenericVariants ==
    {<<"u", "n", "i", "v", "e", "r", "s", "a", "l">>, <<"d", "e", "f", "a", "u", "l", "t">>, <<"u", "n", "k", "n", "o", "w", "n">>, <<"m", "a", "i", "n">>, <<"s", "t", "a", "n", "d", "a", "r", "d">>, <<"o", "r", "i", "g", "i", "n", "a", "l">>}

SpecificKeywords ==
    {<<"a", "r", "m">>, <<"x", "8", "6">>, <<"d", "a", "t", "a">>, <<"w", "i", "n", "d", "o", "w", "s">>, <<"p", "e", "r", "s", "i", "a", "n">>, <<"e", "n", "g", "l", "i", "s", "h">>, <<"m", "o", "d">>, <<"p", "r", "e", "m", "i", "u", "m">>,
     <<"l", "i", "t", "e">>}

\* lines 398-401: the variant is part of the file name unless it is generic
VariantInFilename(variant_sanitized_for_file) ==
    /\ variant_sanitized_for_file # <<>>
    /\ \/ Lower(variant_sanitized_for_file) \notin GenericVariants
       \/ ContainsAny(Lower(variant_sanitized_for_file), SpecificKeywords)

\* lines 392-404: the file name of the sanitized parts
FilenameOf(app_name_sanitized, version_for_file, variant_sanitized_for_file, file_extension) ==
    FinalCleanup(
        Join(SelectSeq(<<app_name_sanitized>>
                       \o (IF version_for_file # <<>>
                           THEN <<<<"v">> \o version_for_file>> ELSE <<>>)
                       \o (IF VariantInFilename(variant_sanitized_for_file)
                           THEN <<variant_sanitized_for_file>> ELSE <<>>),
                       LAMBDA x : x # <<>>),
             <<"_">>)
        \o file_extension)

\* suggested_filename (lines 385-404)
SuggestedFilename(base_app_name_for_id, current_version, variant_final, file_extension) ==
    FilenameOf(sanitize_text(base_app_name_for_id, TRUE),
               ReplaceChar(sanitize_text(current_version, TRUE), ".", "_"),
               sanitize_text(variant_final, TRUE),
               file_extension)

\* the dictionary of lines 411-420; download_url is the page URL joined with
\* the href, written as the pair of the page URL and the file name
RecordOf(page_app_name_full, page_url, filename_from_url_decoded, current_version, variant_final, base_app_name_for_id) ==
    [app_name |-> page_app_name_full,
     version |-> current_version,
     variant |-> variant_final,
     download_url |-> <<page_url, filename_from_url_decoded>>,
     page_url |-> page_url,
     tracking_id |-> TrackingIdOf(base_app_name_for_id, variant_final),
     suggested_filename |->
         SuggestedFilename(base_app_name_for_id, current_version,
                           variant_final,
                           FileExtension(filename_from_url_decoded)),
     current_version_for_tracking |-> current_version]

\* the record of one download link with an extracted version (lines 278-420)
BuildRecord(page_app_name_full, page_url, link_text, filename_from_url_decoded, current_version) ==
    RecordOf(page_app_name_full, page_url, filename_from_url_decoded,
             current_version,
             VariantFinal(link_text, filename_from_url_decoded),
             BaseAppNameForId(page_app_name_full, current_version))

\* link_text of a download link (line 262): the stripped text of its span, or
\* the placeholder when the link has no span
LinkText(li) ==
    IF li.span THEN Strip(li.txt)
    ELSE <<"FA_MIM", "FA_TE", "FA_NUN", " ", "FA_LAM", "FA_YE", "FA_NUN", "FA_KAF", " ", "FA_YE", "FA_ALEF", "FA_FE", "FA_TE", " ", "FA_NUN", "FA_SHIN", "FA_DAL">>

\* tracker_data.get(tracking_id, "0.0.0") (line 408)
last_known_version(tracker, tracking_id) ==
    IF tracking_id \in DOMAIN tracker THEN tracker[tracking_id] ELSE SENTINEL

\* lines 408-422: the record is appended when compare_versions says that its
\* version is newer than the one the snapshot has for its tracking_id
AppendIfNewer(tracker, info) ==
    IF compare_versions(info.version,
                        last_known_version(tracker, info.tracking_id))
    THEN <<info>> ELSE <<>>

\* lines 272-422: a link with no version is skipped
UpdatesOfVersion(page, li, tracker, current_version) ==
    IF current_version = <<>> THEN <<>>
    ELSE AppendIfNewer(tracker,
                       BuildRecord(page.app_name, page.url, LinkText(li),
                                   li.filename, current_version))

\* lines 254-257: a link with no href is skipped.  Lines 260-422: what one
\* download link appends to updates_found_on_page
UpdatesOfLink(page, li, tracker) ==
    IF li.href = "none" THEN <<>>
    ELSE UpdatesOfVersion(page, li, tracker,
             extract_version_from_text_or_url(LinkText(li), li.filename))

\* line 260: urljoin(page_url, href) raises ValueError for a malformed href
LinkRaises(li) == li.href = "malformed"

\* the for loop of scrape_farsroid_page (lines 253-422) over the download
\* links lis, from the list acc of the updates found so far.  Nothing inside
\* the loop catches an exception: it leaves the function and the updates
\* found so far are lost with it.
RECURSIVE ScrapeLinks(_, _, _, _)
ScrapeLinks(page, lis, tracker, acc) ==
    IF lis = <<>> THEN [raised |-> FALSE, updates |-> acc]
    ELSE IF LinkRaises(lis[1]) THEN [raised |-> TRUE, updates |-> <<>>]
    ELSE ScrapeLinks(page, Tail(lis), tracker,
                     acc \o UpdatesOfLink(page, lis[1], tracker))

\* scrape_farsroid_page(page_url, soup, tracker_data): the updates of one
\* page, or raised when an exception leaves the function.  page.app_name is
\* what extract_app_name_from_page returns for the page; a page with no
\* download box, no list or no item returns the empty list.
scrape_farsroid_page(page, tracker) ==
    IF ~page.download_box \/ page.lis = <<>>
    THEN [raised |-> FALSE, updates |-> <<>>]
    ELSE ScrapeLinks(page, page.lis, tracker, <<>>)

----------------------------------------------------------------------------
(* The pages the site serves.  A page is what the browser returns for a   *)
(* URL: its display name as extract_app_name_from_page resolves it, and    *)
(* the links of its download box.  A link has its href ("ok", "none" when  *)
(* the attribute is missing, "malformed" when urljoin raises ValueError    *)
(* for it), the text of its span and the file name of its URL.             *)

\* the display name carries a version; two links with two versions
VersionedNamePage ==
    [url |-> <<"h", "t", "t", "p", "s", ":", "/", "/", "w", "w", "w", ".", "f", "a", "r", "s", "r", "o", "i", "d", ".", "c", "o", "m", "/", "a", "p", "p", "/">>,
     app_name |-> <<"A", "p", "p", " ", "1", ".", "2", ".", "3">>,
     download_box |-> TRUE,
     lis |-> <<
          [href |-> "ok", span |-> TRUE,
           txt |-> <<"D", "o", "w", "n", "l", "o", "a", "d", " ", "1", ".", "2", ".", "3">>,
           filename |-> <<"a", "p", "p", "-", "1", ".", "2", ".", "3", ".", "a", "p", "k">>],
          [href |-> "ok", span |-> TRUE,
           txt |-> <<"D", "o", "w", "n", "l", "o", "a", "d", " ", "1", ".", "3", ".", "0", " ", "a", "r", "m", "6", "4">>,
           filename |-> <<"a", "p", "p", "-", "1", ".", "3", ".", "0", "-", "a", "r", "m", "6", "4", ".", "a", "p", "k">>]
     >>]

\* a link with no version, then two releases of the same variant
PlainPage ==
    [url |-> <<"h", "t", "t", "p", "s", ":", "/", "/", "w", "w", "w", ".", "f", "a", "r", "s", "r", "o", "i", "d", ".", "c", "o", "m", "/", "t", "o", "o", "l", "/">>,
     app_name |-> <<"T", "o", "o", "l">>,
     download_box |-> TRUE,
     lis |-> <<
          [href |-> "ok", span |-> TRUE,
           txt |-> <<"D", "o", "w", "n", "l", "o", "a", "d">>,
           filename |-> <<"t", "o", "o", "l", ".", "a", "p", "k">>],
          [href |-> "ok", span |-> TRUE,
           txt |-> <<"T", "o", "o", "l", " ", "2", ".", "0", " ", "M", "o", "d">>,
           filename |-> <<"t", "o", "o", "l", "-", "2", ".", "0", "-", "m", "o", "d", ".", "a", "p", "k">>],
          [href |-> "ok", span |-> TRUE,
           txt |-> <<"T", "o", "o", "l", " ", "2", ".", "1", " ", "M", "o", "d">>,
           filename |-> <<"t", "o", "o", "l", "-", "2", ".", "1", "-", "m", "o", "d", ".", "a", "p", "k">>]
     >>]

\* a link whose href urljoin rejects, between two good links
MalformedLinkPage ==
    [url |-> <<"h", "t", "t", "p", "s", ":", "/", "/", "w", "w", "w", ".", "F", "a", "r", "s", "r", "o", "i", "d", ".", "c", "o", "m", "/", "g", "a", "m", "e", "/">>,
     app_name |-> <<"G", "a", "m", "e">>,
     download_box |-> TRUE,
     lis |-> <<
          [href |-> "ok", span |-> TRUE,
           txt |-> <<"G", "a", "m", "e", " ", "1", ".", "0", ".", "0">>,
           filename |-> <<"g", "a", "m", "e", "-", "1", ".", "0", ".", "0", ".", "a", "p", "k">>],
          [href |-> "malformed", span |-> TRUE,
           txt |-> <<"G", "a", "m", "e", " ", "1", ".", "0", ".", "0", " ", "d", "a", "t", "a">>,
           filename |-> <<"g", "a", "m", "e", "-", "d", "a", "t", "a", ".", "z", "i", "p">>],
          [href |-> "ok", span |-> TRUE,
           txt |-> <<"G", "a", "m", "e", " ", "1", ".", "0", ".", "0", " ", "l", "i", "t", "e">>,
           filename |-> <<"g", "a", "m", "e", "-", "1", ".", "0", ".", "0", "-", "l", "i", "t", "e", ".", "a", "p", "k">>]
     >>]

\* a page with no download box
NoBoxPage ==
    [url |-> <<"h", "t", "t", "p", "s", ":", "/", "/", "w", "w", "w", ".", "f", "a", "r", "s", "r", "o", "i", "d", ".", "c", "o", "m", "/", "n", "e", "w", "s", "/">>,
     app_name |-> <<"N", "e", "w", "s">>,
     download_box |-> FALSE,
     lis |-> << >>]

\* a page of a site with no scraper
OtherSitePage ==
    [url |-> <<"h", "t", "t", "p", "s", ":", "/", "/", "e", "x", "a", "m", "p", "l", "e", ".", "o", "r", "g", "/", "a", "p", "p", "/">>,
     app_name |-> <<"A", "p", "p">>,
     download_box |-> TRUE,
     lis |-> <<
          [href |-> "ok", span |-> TRUE,
           txt |-> <<"A", "p", "p", " ", "9", ".", "9">>,
           filename |-> <<"a", "p", "p", "-", "9", ".", "9", ".", "a", "p", "k">>]
     >>]

\* a link with no href, then a link with no span
BareLinkPage ==
    [url |-> <<"h", "t", "t", "p", "s", ":", "/", "/", "w", "w", "w", ".", "f", "a", "r", "s", "r", "o", "i", "d", ".", "c", "o", "m", "/", "k", "i", "t", "/">>,
     app_name |-> <<"K", "i", "t", " ", "3", ".", "1">>,
     download_box |-> TRUE,
     lis |-> <<
          [href |-> "none", span |-> TRUE,
           txt |-> <<"K", "i", "t", " ", "3", ".", "1">>,
           filename |-> <<"k", "i", "t", "-", "3", ".", "1", ".", "a", "p", "k">>],
          [href |-> "ok", span |-> FALSE,
           txt |-> <<>>,
           filename |-> <<"k", "i", "t", "-", "3", ".", "1", "-", "x", "8", "6", ".", "a", "p", "k">>]
     >>]

PagePool ==
    {VersionedNamePage,
     PlainPage,
     MalformedLinkPage,
     NoBoxPage,
     OtherSitePage,
     BareLinkPage}

\* versions_tracker.json before the run: absent, a JSON object, a text that
\* is not JSON (json.load raises JSONDecodeError) or bytes that are not UTF-8
\* (reading the file raises UnicodeDecodeError)

NoTrackerFile ==
    [kind |-> "absent",
     data |-> <<>>]

EmptyTrackerFile ==
    [kind |-> "object",
     data |-> <<>>]

OldTrackerFile ==
    [kind |-> "object",
     data |-> (<<"a", "p", "p", "_", "d", "e", "f", "a", "u", "l", "t">> :> <<"1", ".", "2", ".", "3">>)
             @@ (<<"t", "o", "o", "l", "_", "m", "o", "d">> :> <<"1", ".", "9">>)
             @@ (<<"g", "o", "n", "e", "_", "d", "e", "f", "a", "u", "l", "t">> :> <<"4", ".", "0">>)]

CurrentTrackerFile ==
    [kind |-> "object",
     data |-> (<<"t", "o", "o", "l", "_", "m", "o", "d">> :> <<"2", ".", "1">>)
             @@ (<<"g", "a", "m", "e", "_", "d", "e", "f", "a", "u", "l", "t">> :> <<"1", ".", "0", ".", "0">>)
             @@ (<<"a", "p", "p", "_", "d", "e", "f", "a", "u", "l", "t">> :> <<"0", ".", "0", ".", "0">>)]

TruncatedTrackerFile ==
    [kind |-> "json_error",
     data |-> <<>>]

BinaryTrackerFile ==
    [kind |-> "not_utf8",
     data |-> <<>>]

TrackerFilePool ==
    {NoTrackerFile,
     EmptyTrackerFile,
     OldTrackerFile,
     CurrentTrackerFile,
     TruncatedTrackerFile,
     BinaryTrackerFile}

\* two releases of the same variant, the newer one first
TwoBuildsPage ==
    [url |-> <<"h", "t", "t", "p", "s", ":", "/", "/", "w", "w", "w", ".", "f", "a", "r", "s", "r", "o", "i", "d", ".", "c", "o", "m", "/", "p", "l", "a", "y", "e", "r", "/">>,
     app_name |-> <<"P", "l", "a", "y", "e", "r">>,
     download_box |-> TRUE,
     lis |-> <<
          [href |-> "ok", span |-> TRUE,
           txt |-> <<"P", "l", "a", "y", "e", "r", " ", "2", ".", "1">>,
           filename |-> <<"p", "l", "a", "y", "e", "r", "-", "2", ".", "1", ".", "a", "p", "k">>],
          [href |-> "ok", span |-> TRUE,
           txt |-> <<"P", "l", "a", "y", "e", "r", " ", "2", ".", "0">>,
           filename |-> <<"p", "l", "a", "y", "e", "r", "-", "2", ".", "0", ".", "a", "p", "k">>]
     >>]

\* a release whose version is the text "0.0.0"
ZeroVersionPage ==
    [url |-> <<"h", "t", "t", "p", "s", ":", "/", "/", "w", "w", "w", ".", "f", "a", "r", "s", "r", "o", "i", "d", ".", "c", "o", "m", "/", "z", "e", "r", "o", "/">>,
     app_name |-> <<"Z", "e", "r", "o">>,
     download_box |-> TRUE,
     lis |-> <<
          [href |-> "ok", span |-> TRUE,
           txt |-> <<"Z", "e", "r", "o", " ", "0", ".", "0", ".", "0">>,
           filename |-> <<"z", "e", "r", "o", "-", "0", ".", "0", ".", "0", ".", "a", "p", "k">>]
     >>]

\* the pages of the runs that are repeated
RerunPagePool ==
    {TwoBuildsPage,
     ZeroVersionPage,
     PlainPage,
     VersionedNamePage}

\* the page the site serves for a URL
PageOf(page_url) == CHOOSE p \in PagePool \cup RerunPagePool : p.url = page_url

\* the number of URLs of urls_to_check.txt
MaxPages == 2

\* urls_to_check.txt: absent, or its URLs in order (lines 426, 433-434)
UrlFilePool ==
    {[exists |-> FALSE, urls |-> <<>>]}
    \cup {[exists |-> TRUE, urls |-> u] :
             u \in UNION {[1..n -> {p.url : p \in PagePool}] : n \in 0..MaxPages}}

----------------------------------------------------------------------------
(* main *)

\* load_tracker() (lines 28-39): the snapshot, or raised when an exception
\* leaves the function.  Only json.JSONDecodeError is caught: a file that is
\* not UTF-8 raises UnicodeDecodeError, which is a ValueError of another kind.
load_tracker(file) ==
    IF file.kind = "absent" THEN [raised |-> FALSE, data |-> <<>>]
    ELSE IF file.kind = "object" THEN [raised |-> FALSE, data |-> file.data]
    ELSE IF file.kind = "json_error" THEN [raised |-> FALSE, data |-> <<>>]
    ELSE [raised |-> TRUE, data |-> <<>>]

\* "farsroid.com" in page_url.lower() (line 459)
IsFarsroid(page_url) ==
    Contains(Lower(page_url),
             <<"f", "a", "r", "s", "r", "o", "i", "d", ".", "c", "o", "m">>)

\* a faulty merge: the snapshot of the updates alone, the prior entries lost
updates_only(tracker, updates) ==
    [id \in {updates[i].tracking_id : i \in DOMAIN updates} |->
        updates[SetMax({i \in DOMAIN updates : updates[i].tracking_id = id})]
            .current_version_for_tracking]

\* new_tracker_data_for_save (lines 470-473): a copy of the snapshot in which
\* every update, in order, sets the version of its tracking_id
RECURSIVE new_tracker_data_for_save(_, _)
new_tracker_data_for_save(tracker, updates) ==
    IF updates = <<>> THEN tracker
    ELSE LET update_item == updates[1]
         IN  new_tracker_data_for_save(
                 [id \in DOMAIN tracker \cup {update_item.tracking_id} |->
                     IF id = update_item.tracking_id
                     THEN update_item.current_version_for_tracking
                     ELSE tracker[id]],
                 Tail(updates))

\* what main() logs for one URL of the loop, and the updates the URL added
LogEntry(page_url, outcome, updates) ==
    [url |-> page_url, outcome |-> outcome, updates |-> updates]

\* the state before main() runs
Init ==
    /\ pc = "start"
    /\ url_file \in UrlFilePool
    /\ tracker_file \in TrackerFilePool
    /\ urls_to_process = <<>>
    /\ page_idx = 0
    /\ tracker_data = <<>>
    /\ all_updates_found = <<>>
    /\ output_json = <<>>
    /\ log = <<>>
    /\ fn = [op |-> "main"]
    /\ ret = <<>>

\* lines 426-431: no URL file; an empty report is written and the run exits
\* with status 1
MissingUrlFile ==
    /\ pc = "start"
    /\ ~url_file.exists
    /\ output_json' = << <<>> >>
    /\ pc' = "exit1"
    /\ UNCHANGED <<url_file, tracker_file, urls_to_process, page_idx,
                   tracker_data, all_updates_found, log, fn, ret>>

\* lines 433-441: the URL file has no URL; an empty report is written and
\* main() returns
NoUrls ==
    /\ pc = "start"
    /\ url_file.exists
    /\ url_file.urls = <<>>
    /\ urls_to_process' = <<>>
    /\ output_json' = << <<>> >>
    /\ pc' = "returned"
    /\ UNCHANGED <<url_file, tracker_file, page_idx, tracker_data,
                   all_updates_found, log, fn, ret>>

\* lines 433-434: the URLs are read
ReadUrls ==
    /\ pc = "start"
    /\ url_file.exists
    /\ url_file.urls # <<>>
    /\ urls_to_process' = url_file.urls
    /\ pc' = "load"
    /\ UNCHANGED <<url_file, tracker_file, page_idx, tracker_data,
                   all_updates_found, output_json, log, fn, ret>>

\* lines 443-444: the snapshot is loaded; an exception of load_tracker ends
\* the run, nothing in main() catches it
LoadTracker ==
    /\ pc = "load"
    /\ LET loaded == load_tracker(tracker_file)
       IN  IF loaded.raised
           THEN /\ pc' = "crashed"
                /\ UNCHANGED <<tracker_data, all_updates_found, page_idx>>
           ELSE /\ tracker_data' = loaded.data
                /\ all_updates_found' = <<>>
                /\ page_idx' = 1
                /\ pc' = "pages"
    /\ UNCHANGED <<url_file, tracker_file, urls_to_process, output_json, log,
                   fn, ret>>

\* a faulty loop: the browser returns nothing and the loop ends (break for
\* continue)
FetchFailsEndsLoop ==
    /\ pc = "pages"
    /\ page_idx <= Len(urls_to_process)
    /\ log' = Append(log, LogEntry(urls_to_process[page_idx], "no_content", <<>>))
    /\ page_idx' = Len(urls_to_process) + 1
    /\ UNCHANGED <<pc, url_file, tracker_file, urls_to_process, tracker_data,
                   all_updates_found, output_json, fn, ret>>

\* lines 449-455: the browser returns nothing for the page; the loop
\* continues with the next URL
FetchFails ==
    /\ pc = "pages"
    /\ page_idx <= Len(urls_to_process)
    /\ log' = Append(log, LogEntry(urls_to_process[page_idx], "no_content", <<>>))
    /\ page_idx' = page_idx + 1
    /\ UNCHANGED <<pc, url_file, tracker_file, urls_to_process, tracker_data,
                   all_updates_found, output_json, fn, ret>>

\* lines 457-465: what processing the content of a page logs and adds; an
\* exception of the scraper is caught and logged, and the page adds nothing
ScrapedOutcome(page_url, updates_on_page) ==
    IF updates_on_page.raised
    THEN LogEntry(page_url, "page_error", <<>>)
    ELSE LogEntry(page_url, "scraped", updates_on_page.updates)

PageOutcome(page_url, tracker) ==
    IF ~IsFarsroid(page_url)
    THEN LogEntry(page_url, "unsupported", <<>>)
    ELSE ScrapedOutcome(page_url,
                        scrape_farsroid_page(PageOf(page_url), tracker))

\* lines 449-466: the page is fetched and processed
ProcessPage ==
    /\ pc = "pages"
    /\ page_idx <= Len(urls_to_process)
    /\ \E entry \in {PageOutcome(urls_to_process[page_idx], tracker_data)} :
          /\ all_updates_found' = all_updates_found \o entry.updates
          /\ log' = Append(log, entry)
    /\ page_idx' = page_idx + 1
    /\ UNCHANGED <<pc, url_file, tracker_file, urls_to_process, tracker_data,
                   output_json, fn, ret>>

\* lines 468-491: after the loop the report and the next snapshot are written
SaveResults ==
    /\ pc = "pages"
    /\ page_idx > Len(urls_to_process)
    /\ output_json' = <<all_updates_found>>
    /\ tracker_file' =
           [kind |-> "object",
            data |-> new_tracker_data_for_save(tracker_data, all_updates_found)]
    /\ pc' = "done"
    /\ UNCHANGED <<url_file, urls_to_process, page_idx, tracker_data,
                   all_updates_found, log, fn, ret>>

Next ==
    \/ MissingUrlFile
    \/ NoUrls
    \/ ReadUrls
    \/ LoadTracker
    \/ FetchFails
    \/ ProcessPage
    \/ SaveResults

Spec == Init /\ [][Next]_vars

\* the state of the variables of main() while a function is applied on its own
MainIdle ==
    /\ pc = "idle"
    /\ url_file = [exists |-> FALSE, urls |-> <<>>]
    /\ tracker_file = NoTrackerFile
    /\ urls_to_process = <<>>
    /\ page_idx = 0
    /\ tracker_data = <<>>
    /\ all_updates_found = <<>>
    /\ output_json = <<>>
    /\ log = <<>>

----------------------------------------------------------------------------
(* compare_versions on its own: the comparison of lines 408-409 for one    *)
(* tracking_id, over short version texts and the versions of the examples. *)

VerChars == {"0", "1", ".", "a", "b"}

\* the length of the enumerated version texts
MaxVersionLen == 2

NamedVersions ==
    {<<"2", ".", "0", ".", "0">>,
     <<"1", ".", "9", ".", "9">>,
     <<"1", ".", "0", ".", "0">>,
     <<"1", ".", "0", ".", "0", "b">>,
     <<"a", "b", "c">>,
     <<"a", "b", "d">>,
     <<"0", ".", "0", ".", "0">>,
     <<"1", ".", "0">>,
     <<"0", ".", "9">>}

VersionTexts ==
    UNION {[1..n -> VerChars] : n \in 0..MaxVersionLen} \cup NamedVersions

ProbeId == <<"a", "p", "p", "_", "d", "e", "f", "a", "u", "l", "t">>

InitCompare ==
    /\ MainIdle
    /\ fn \in [op : {"compare_versions"},
               current_version : VersionTexts,
               tracking_id : {ProbeId},
               tracker : {<<>>} \cup {(ProbeId :> v) : v \in VersionTexts}]
    /\ ret = <<>>

\* lines 408-409: the version the snapshot has for the tracking_id, compared
\* with the current version
ApplyCompare ==
    /\ fn.op = "compare_versions"
    /\ ret = <<>>
    /\ ret' = <<compare_versions(fn.current_version,
                    last_known_version(fn.tracker, fn.tracking_id))>>
    /\ UNCHANGED <<pc, url_file, tracker_file, urls_to_process, page_idx,
                   tracker_data, all_updates_found, output_json, log, fn>>

NextCompare == ApplyCompare

SpecCompare == InitCompare /\ [][NextCompare]_vars

----------------------------------------------------------------------------
(* sanitize_text on its own, applied once and then to its own result. *)

SanChars == {"a", "A", " ", "-", "_", "(", ")"}

\* the length of the enumerated texts
MaxTextLen == 4

InitSanitize ==
    /\ MainIdle
    /\ fn \in [op : {"sanitize_text"},
               text : UNION {[1..n -> SanChars] : n \in 0..MaxTextLen},
               for_filename : BOOLEAN]
    /\ ret = <<>>

\* sanitize_text(text, for_filename), and then sanitize_text of the result
ApplySanitize ==
    /\ fn.op = "sanitize_text"
    /\ Len(ret) < 2
    /\ ret' = Append(ret, sanitize_text(IF ret = <<>> THEN fn.text
                                        ELSE ret[Len(ret)],
                                        fn.for_filename))
    /\ UNCHANGED <<pc, url_file, tracker_file, urls_to_process, page_idx,
                   tracker_data, all_updates_found, output_json, log, fn>>

NextSanitize == ApplySanitize

SpecSanitize == InitSanitize /\ [][NextSanitize]_vars

----------------------------------------------------------------------------
(* scrape_farsroid_page on a page of one download link, with no snapshot:  *)
(* the record of the link for each display name, link and version.         *)

NamePool ==
    {<<"A", "p", "p">>,
     <<"A", "p", "p", " ", "1", ".", "2", ".", "3">>,
     <<"A", "p", "p", " ", "v", "1", ".", "3", ".", "0", " ", "-", " ", "P", "r", "o">>,
     <<"A", "p", "p", " ", "1", ".", "2", ".", "3", "b">>,
     <<"M", "y", " ", "A", "p", "p", " ", "(", "f", "a", "r", "s", "r", "o", "i", "d", ".", "c", "o", "m", ")">>,
     <<"T", "o", "o", "l", " ", "2", ".", "0", " ", "M", "o", "d">>,
     <<"FA_TE", "FA_LAM", "FA_GAF", "FA_RE", "FA_ALEF", "FA_MIM", " ", "1", ".", "2", ".", "3">>,
     <<"A", "p", "p", " ", "EN_DASH", " ", "M", "o", "d", " ", "1", ".", "3", ".", "0">>}

\* a download link without its version: the text of the span and the file
\* name, each before and after the version
LinkTemplates ==
    {[txt_before |-> <<"D", "o", "w", "n", "l", "o", "a", "d", " ">>, txt_after |-> <<>>,
      file_before |-> <<"a", "p", "p", "-">>, file_after |-> <<".", "a", "p", "k">>],
     [txt_before |-> <<"D", "o", "w", "n", "l", "o", "a", "d", " ", "v">>, txt_after |-> <<" ", "a", "r", "m", "6", "4">>,
      file_before |-> <<"a", "p", "p", "-", "v">>, file_after |-> <<"-", "a", "r", "m", "6", "4", ".", "a", "p", "k">>],
     [txt_before |-> <<"FA_DAL", "FA_ALEF", "FA_NUN", "FA_LAM", "FA_VAV", "FA_DAL", " ">>, txt_after |-> <<" ", "FA_MIM", "FA_VAV", "FA_DAL">>,
      file_before |-> <<"a", "p", "p", "_">>, file_after |-> <<"_", "m", "o", "d", ".", "a", "p", "k">>],
     [txt_before |-> <<"A", "p", "p", " ">>, txt_after |-> <<" ", "d", "a", "t", "a">>,
      file_before |-> <<"a", "p", "p", "-">>, file_after |-> <<"-", "d", "a", "t", "a", ".", "z", "i", "p">>]}

TrackedVersions ==
    {<<"1", ".", "2", ".", "3">>,
     <<"1", ".", "3", ".", "0">>,
     <<"2", ".", "0">>}

\* the link of a template for a version
LinkOf(template, version) ==
    [href |-> "ok", span |-> TRUE,
     txt |-> template.txt_before \o version \o template.txt_after,
     filename |-> template.file_before \o version \o template.file_after]

\* the page with the display name and the one link
PageWith(page_app_name_full, li) ==
    [url |-> VersionedNamePage.url,
     app_name |-> page_app_name_full,
     download_box |-> TRUE,
     lis |-> <<li>>]

InitTrackingId ==
    /\ MainIdle
    /\ fn \in [op : {"scrape_farsroid_page"},
               page_app_name_full : NamePool,
               template : LinkTemplates,
               version : TrackedVersions]
    /\ ret = <<>>

\* scrape_farsroid_page(page_url, soup, {}) for the page of the link
ApplyScrape ==
    /\ fn.op = "scrape_farsroid_page"
    /\ ret = <<>>
    /\ ret' = <<scrape_farsroid_page(
                    PageWith(fn.page_app_name_full,
                             LinkOf(fn.template, fn.version)),
                    <<>>)>>
    /\ UNCHANGED <<pc, url_file, tracker_file, urls_to_process, page_idx,
                   tracker_data, all_updates_found, output_json, log, fn>>

NextTrackingId == ApplyScrape

SpecTrackingId == InitTrackingId /\ [][NextTrackingId]_vars

----------------------------------------------------------------------------
(* Properties *)

\* the record scrape_farsroid_page builds for the display name, the link
\* template and the version, with no snapshot
RecordFor(page_app_name_full, template, version) ==
    scrape_farsroid_page(PageWith(page_app_name_full, LinkOf(template, version)),
                         <<>>).updates[1]

\* C1: for a fixed page and a fixed download link, the tracking_id built for
\* one extracted version is the tracking_id built for every other version,
\* and the tracking_id does not contain the version that is tracked.
C1_TrackingIdVersionIndependent ==
    ret # <<>> =>
        /\ ~ret[1].raised
        /\ Len(ret[1].updates) = 1
        /\ ret[1].updates[1].version = fn.version
        /\ \A other \in TrackedVersions :
              RecordFor(fn.page_app_name_full, fn.template, other).tracking_id
                  = ret[1].updates[1].tracking_id
        /\ ~Contains(ret[1].updates[1].tracking_id, fn.version)

\* the display name carries version 1.2.3 and the link version 1.3.0: the
\* version of the name stays in the tracking_id
C1_NameVersionKept ==
    /\ ret # <<>>
    /\ fn.page_app_name_full = <<"A", "p", "p", " ", "1", ".", "2", ".", "3">>
    /\ fn.version = <<"1", ".", "3", ".", "0">>
    /\ Len(ret[1].updates) = 1
    /\ Contains(ret[1].updates[1].tracking_id, <<"1", ".", "2", ".", "3">>)
    /\ RecordFor(fn.page_app_name_full, fn.template, <<"1", ".", "2", ".", "3">>).tracking_id
           # ret[1].updates[1].tracking_id

\* C2: when the snapshot has no entry for the tracking_id, or the entry is
\* "0.0.0", every non-empty current version is reported as an update.
C2_EmptyStateBootstrap ==
    (/\ ret # <<>>
     /\ fn.current_version # <<>>
     /\ \/ fn.tracking_id \notin DOMAIN fn.tracker
        \/ fn.tracker[fn.tracking_id] = SENTINEL)
    => ret[1] = TRUE

\* the entry is "0.0.0" and the current version "0" sorts below it: only the
\* sentinel makes it an update
C2_SentinelEntryReported ==
    /\ ret = <<TRUE>>
    /\ fn.tracking_id \in DOMAIN fn.tracker
    /\ fn.tracker[fn.tracking_id] = SENTINEL
    /\ fn.current_version = <<"0">>

\* the current version and the version of the snapshot of a comparison with
\* an entry in the snapshot
HasLast == fn.tracking_id \in DOMAIN fn.tracker

\* what the three tiers say for two non-empty versions
ThreeTiers(current, last) ==
    IF parse(current).ok /\ parse(last).ok
       /\ CmpVersion(parse(current), parse(last)) # 0
    THEN CmpVersion(parse(current), parse(last)) > 0
    ELSE current # last /\ StrGreater(current, last)

\* C3: for non-empty versions with last not "0.0.0", compare_versions is
\* true iff current has the higher precedence when both parse and their
\* precedence differs, and otherwise iff the raw strings differ and current
\* sorts greater; ("2.0.0", "1.9.9") is an update, ("1.0.0", "1.0.0") and
\* ("abc", "abd") are not.
C3_ThreeTierComparison ==
    (/\ ret # <<>>
     /\ HasLast
     /\ fn.current_version # <<>>
     /\ fn.tracker[fn.tracking_id] # <<>>
     /\ fn.tracker[fn.tracking_id] # SENTINEL)
    => /\ ret[1] = ThreeTiers(fn.current_version, fn.tracker[fn.tracking_id])
       /\ (fn.current_version = <<"2", ".", "0", ".", "0">>
           /\ fn.tracker[fn.tracking_id] = <<"1", ".", "9", ".", "9">>) => ret[1] = TRUE
       /\ (fn.current_version = <<"1", ".", "0", ".", "0">>
           /\ fn.tracker[fn.tracking_id] = <<"1", ".", "0", ".", "0">>) => ret[1] = FALSE
       /\ (fn.current_version = <<"a", "b", "c">>
           /\ fn.tracker[fn.tracking_id] = <<"a", "b", "d">>) => ret[1] = FALSE

\* "1.0" and "1" parse to the same version and the raw strings decide
C3_RawStringsDecide ==
    /\ ret = <<TRUE>>
    /\ HasLast
    /\ fn.current_version = <<"1", ".", "0">>
    /\ fn.tracker[fn.tracking_id] = <<"1">>
    /\ parse(fn.current_version).ok
    /\ CmpVersion(parse(fn.current_version), parse(<<"1">>)) = 0

\* C4: isUpdate("1.0.0b", "1.0.0") is true: the two have equal precedence and
\* the raw strings make "1.0.0b" the newer.
C4_BuildTagIsNewer ==
    (/\ ret # <<>>
     /\ HasLast
     /\ fn.current_version = <<"1", ".", "0", ".", "0", "b">>
     /\ fn.tracker[fn.tracking_id] = <<"1", ".", "0", ".", "0">>)
    => /\ ret[1] = TRUE
       /\ CmpVersion(parse(fn.current_version), parse(<<"1", ".", "0", ".", "0">>)) = 0

\* "1.0.0b" parses as the pre-release 1.0.0b0, below 1.0.0, and is not
\* reported
C4_BuildTagIsOlder ==
    /\ ret = <<FALSE>>
    /\ HasLast
    /\ fn.current_version = <<"1", ".", "0", ".", "0", "b">>
    /\ fn.tracker[fn.tracking_id] = <<"1", ".", "0", ".", "0">>
    /\ CmpVersion(parse(fn.current_version), parse(<<"1", ".", "0", ".", "0">>)) < 0

\* the tracking_ids of a list of update records
UpdatedIds(updates) == {updates[i].tracking_id : i \in DOMAIN updates}

\* the version of the last record of the list for a tracking_id
LastVersionOf(updates, id) ==
    updates[SetMax({i \in DOMAIN updates : updates[i].tracking_id = id})]
        .current_version_for_tracking

\* C5: the snapshot written at the end of a run is the prior snapshot with
\* exactly the tracking_ids of the emitted updates overwritten by their
\* versions; every other tracking_id keeps its version and none is removed.
C5_SnapshotMerge ==
    pc = "done" =>
        /\ tracker_file.kind = "object"
        /\ DOMAIN tracker_file.data
               = DOMAIN tracker_data \cup UpdatedIds(all_updates_found)
        /\ \A id \in DOMAIN tracker_file.data :
              tracker_file.data[id] =
                  IF id \in UpdatedIds(all_updates_found)
                  THEN LastVersionOf(all_updates_found, id)
                  ELSE tracker_data[id]

\* a run from the old snapshot: tool_mod is overwritten, gone_default is
\* kept and app_1.2.3_arm64-v8a is new
C5_OverwrittenKeptAndNew ==
    /\ pc = "done"
    /\ tracker_data = OldTrackerFile.data
    /\ Len(all_updates_found) >= 3
    /\ tracker_file.data[<<"t", "o", "o", "l", "_", "m", "o", "d">>] = <<"2", ".", "1">>
    /\ tracker_file.data[<<"g", "o", "n", "e", "_", "d", "e", "f", "a", "u", "l", "t">>] = <<"4", ".", "0">>
    /\ <<"a", "p", "p", "_", "1", ".", "2", ".", "3", "_", "a", "r", "m", "6", "4", "-", "v", "8", "a">> \in DOMAIN tracker_file.data

\* C6: sanitize_text(sanitize_text(s, f), f) = sanitize_text(s, f) for every
\* text s and both modes f.
C6_SanitizeIdempotent ==
    Len(ret) = 2 => ret[2] = ret[1]

\* "a --" for a file name gives "a_-" and then "a"
C6_SecondPassChanges ==
    /\ fn.text = <<"a", " ", "-", "-">>
    /\ fn.for_filename
    /\ ret = <<<<"a", "_", "-">>, <<"a">>>>

\* C7: the base name is computed once per page: the base name of any record
\* of a page gives, with the variant of any other record of the page, that
\* record's tracking_id and suggested_filename, whatever the versions.
C7_BaseNamePerPage ==
    \A i \in DOMAIN log :
        \A j, k \in DOMAIN log[i].updates :
            LET one == log[i].updates[j]
                other == log[i].updates[k]
                base == BaseAppNameForId(one.app_name, one.version)
            IN  /\ other.tracking_id = TrackingIdOf(base, other.variant)
                /\ other.suggested_filename =
                       SuggestedFilename(base, other.version, other.variant,
                                         FileExtension(other.download_url[2]))

\* the two records of the page named "App 1.2.3": app_default for 1.2.3 and
\* app_1.2.3_arm64-v8a for 1.3.0
C7_TwoBaseNamesOnOnePage ==
    \E i \in DOMAIN log :
        /\ Len(log[i].updates) = 2
        /\ log[i].updates[1].tracking_id = <<"a", "p", "p", "_", "d", "e", "f", "a", "u", "l", "t">>
        /\ log[i].updates[2].tracking_id = <<"a", "p", "p", "_", "1", ".", "2", ".", "3", "_", "a", "r", "m", "6", "4", "-", "v", "8", "a">>

\* the updates of a page when each link is handled on its own: a link that
\* fails adds nothing and the others add what they add
RECURSIVE IsolatedUpdates(_, _, _)
IsolatedUpdates(page, lis, tracker) ==
    IF lis = <<>> THEN <<>>
    ELSE (IF LinkRaises(lis[1]) THEN <<>>
          ELSE UpdatesOfLink(page, lis[1], tracker))
         \o IsolatedUpdates(page, Tail(lis), tracker)

\* a link with an href and no version in its text and file name
NoVersionLink(li) ==
    /\ li.href = "ok"
    /\ extract_version_from_text_or_url(LinkText(li), li.filename) = <<>>

\* C8: a download link with no extractable version adds no record and raises
\* nothing, and a failure on one link affects that link alone: the updates of
\* the other links of the page are emitted.
C8_LinkIsolation ==
    \A i \in DOMAIN log :
        log[i].outcome \in {"scraped", "page_error"} =>
            LET page == PageOf(log[i].url)
            IN  /\ \A k \in DOMAIN page.lis :
                      NoVersionLink(page.lis[k]) =>
                          /\ UpdatesOfLink(page, page.lis[k], tracker_data) = <<>>
                          /\ ~LinkRaises(page.lis[k])
                /\ (\A k \in DOMAIN page.lis : ~LinkRaises(page.lis[k]))
                       => log[i].outcome = "scraped"
                /\ page.download_box =>
                       log[i].updates
                           = IsolatedUpdates(page, page.lis, tracker_data)

\* the page with a link with no version is scraped to the end and its later
\* link is emitted
C8_NoVersionLinkSkipped ==
    \E i \in DOMAIN log :
        /\ log[i].url = PlainPage.url
        /\ log[i].outcome = "scraped"
        /\ NoVersionLink(PlainPage.lis[1])
        /\ log[i].updates # <<>>

\* the updates of the handled URLs, in order
RECURSIVE UpdatesOfLog(_)
UpdatesOfLog(entries) ==
    IF entries = <<>> THEN <<>>
    ELSE entries[1].updates \o UpdatesOfLog(Tail(entries))

\* a URL for which the browser returned nothing
FetchFailed == \E i \in DOMAIN log : log[i].outcome = "no_content"

\* the report and the snapshot are written
RunSaved ==
    /\ pc = "done"
    /\ output_json = <<all_updates_found>>
    /\ tracker_file.kind = "object"

\* the snapshots load_tracker can return for the files of the pool
LoadableSnapshots == {load_tracker(f).data : f \in TrackerFilePool}

\* PageOutcome for every URL of the pool and every such snapshot, as a table
OutcomeTable ==
    [u \in {p.url : p \in PagePool}, t \in LoadableSnapshots |-> PageOutcome(u, t)]
    @@ <<>>

\* what processing the page of the URL logs and adds when nothing failed
\* before it
ExpectedOutcome(page_url, tracker) ==
    IF <<page_url, tracker>> \in DOMAIN OutcomeTable
    THEN OutcomeTable[page_url, tracker]
    ELSE PageOutcome(page_url, tracker)

\* a page of the run whose fetch failed adds nothing to the update list and
\* to the snapshot, and every URL of the list is handled, the later ones as
\* they are with no failure before them
FetchFailureIsolated ==
    /\ \A i \in DOMAIN log :
          log[i].outcome = "no_content" => log[i].updates = <<>>
    /\ all_updates_found = UpdatesOfLog(log)
    /\ \A i \in DOMAIN log :
          /\ log[i].url = urls_to_process[i]
          /\ log[i].outcome # "no_content" =>
                 log[i] = ExpectedOutcome(urls_to_process[i], tracker_data)
    /\ pc = "done" =>
          /\ Len(log) = Len(urls_to_process)
          /\ RunSaved
          /\ tracker_file.data
                 = new_tracker_data_for_save(tracker_data, UpdatesOfLog(log))

\* main() runs to its end: each step of the loop returns
FairSpec == Spec /\ WF_vars(Next)

\* C9: a page for which the browser returns nothing adds no record and no
\* change of the snapshot, every later URL is still fetched and processed,
\* and the run writes its report and its snapshot.
C9_FetchFailureIsolation ==
    /\ [](pc \in {"pages", "done"} => FetchFailureIsolated)
    /\ ((pc = "pages" /\ FetchFailed) ~> RunSaved)

\* the first fetch failed and the second page was scraped and saved
C9_LaterPageProcessed ==
    /\ pc = "done"
    /\ Len(log) = 2
    /\ log[1].outcome = "no_content"
    /\ log[2].outcome = "scraped"
    /\ log[2].updates # <<>>
    /\ output_json = <<log[2].updates>>

\* the tracker file exists and is not a JSON object
CorruptTrackerFile == tracker_file.kind \in {"json_error", "not_utf8"}

\* C10: when the tracker file exists and cannot be decoded, load_tracker
\* gives the empty snapshot and the run goes on: every extractable record is
\* compared with "never seen" and reported.
C10_CorruptTrackerStartsFresh ==
    (CorruptTrackerFile /\ pc \in {"pages", "crashed"}) =>
        /\ pc # "crashed"
        /\ tracker_data = <<>>
        /\ \A i \in DOMAIN log :
              log[i].outcome = "scraped" =>
                  log[i].updates
                      = scrape_farsroid_page(PageOf(log[i].url), <<>>).updates

\* the tracker file is not UTF-8: reading it raises UnicodeDecodeError, which
\* load_tracker does not catch, and the run ends before any page
C10_UndecodableFileEndsRun ==
    /\ pc = "crashed"
    /\ tracker_file = BinaryTrackerFile
    /\ log = <<>>
    /\ output_json = <<>>

----------------------------------------------------------------------------
(* The variant of a download link (lines 279-354) whose file name and link *)
(* text are made of keyword tokens, in every order and every division      *)
(* between the file name and the link text.                                *)

\* every keyword lines 285-332 look for in combined_text_for_variant
VariantKeywords ==
    {<<"m", "o", "d", "-", "e", "x", "t", "r", "a">>,
     <<"FA_MIM", "FA_VAV", "FA_DAL", " ", "FA_ALEF", "FA_KAF", "FA_SIN", "FA_TE", "FA_RE", "FA_ALEF">>,
     <<"FA_MIM", "FA_VAV", "FA_DAL", "FA_ALEF", "FA_KAF", "FA_SIN", "FA_TE", "FA_RE", "FA_ALEF">>,
     <<"m", "o", "d", "-", "l", "i", "t", "e">>,
     <<"FA_MIM", "FA_VAV", "FA_DAL", " ", "FA_LAM", "FA_ALEF", "FA_YE", "FA_TE">>,
     <<"FA_MIM", "FA_VAV", "FA_DAL", "FA_LAM", "FA_ALEF", "FA_YE", "FA_TE">>,
     <<"m", "o", "d">>,
     <<"FA_MIM", "FA_VAV", "FA_DAL", " ", "FA_SHIN", "FA_DAL", "FA_HE">>,
     <<"FA_MIM", "FA_VAV", "FA_DAL">>,
     <<"p", "r", "e", "m", "i", "u", "m">>,
     <<"FA_PE", "FA_RE", "FA_MIM", "FA_YE", "FA_VAV", "FA_MIM">>,
     <<"l", "i", "t", "e">>,
     <<"FA_LAM", "FA_ALEF", "FA_YE", "FA_TE">>,
     <<"p", "e", "r", "s", "i", "a", "n">>,
     <<"FA_FE", "FA_ALEF", "FA_RE", "FA_SIN", "FA_YE">>,
     <<"e", "n", "g", "l", "i", "s", "h">>,
     <<"FA_ALEF", "FA_NUN", "FA_GAF", "FA_LAM", "FA_YE", "FA_SIN", "FA_YE">>,
     <<"a", "r", "m", "6", "4", "-", "v", "8", "a">>,
     <<"a", "r", "m", "6", "4">>,
     <<"a", "r", "m", "e", "a", "b", "i", "-", "v", "7", "a">>,
     <<"a", "r", "m", "v", "7">>,
     <<"a", "r", "m">>,
     <<"x", "8", "6", "_", "6", "4">>,
     <<"x", "8", "6">>,
     <<"w", "i", "n", "d", "o", "w", "s">>,
     <<"FA_VAV", "FA_YE", "FA_NUN", "FA_DAL", "FA_VAV", "FA_ZE">>,
     <<"d", "a", "t", "a">>,
     <<"FA_DAL", "FA_YE", "FA_TE", "FA_ALEF">>,
     <<"o", "b", "b">>,
     <<"u", "n", "i", "v", "e", "r", "s", "a", "l">>,
     <<"FA_ALEF", "FA_SAD", "FA_LAM", "FA_YE">>,
     <<"o", "r", "i", "g", "i", "n", "a", "l">>,
     <<"FA_MIM", "FA_AIN", "FA_MIM", "FA_VAV", "FA_LAM", "FA_YE">>,
     <<"m", "a", "i", "n">>}

\* the keywords that are in the combined text
KeywordsPresent(combined_text_for_variant) ==
    {k \in VariantKeywords : Contains(combined_text_for_variant, k)}

\* the words a file name or a link text is made of
VariantTokens ==
    {<<"m", "o", "d">>,
     <<"l", "i", "t", "e">>,
     <<"m", "o", "d", "-", "e", "x", "t", "r", "a">>,
     <<"a", "r", "m", "6", "4", "-", "v", "8", "a">>,
     <<"FA_DAL", "FA_ALEF", "FA_NUN", "FA_LAM", "FA_VAV", "FA_DAL", " ", "FA_NUN", "FA_SIN", "FA_KHE", "FA_HE", " ", "FA_MIM", "FA_VAV", "FA_DAL", " ", "FA_ALEF", "FA_KAF", "FA_SIN", "FA_TE", "FA_RE", "FA_ALEF">>,
     <<"x", "8", "6">>,
     <<"m", "a", "i", "n">>}

MaxTokens == 3

\* the file name "app-<token>-<token>.<ext>" and the link text
\* "<token> <token>" of a download link
VariantLink(file_tokens, link_tokens, ext) ==
    [txt |-> Join(link_tokens, <<" ">>),
     filename |-> Join(<<<<"a", "p", "p">>>> \o file_tokens, <<"-">>) \o ext]

\* every order of the tokens of T, and every division of them between the
\* file name and the link text
Arrangements(T) ==
    {[file_tokens |-> SubSeq(s, 1, k), link_tokens |-> SubSeq(s, k + 1, Len(s))] :
        <<s, k>> \in {<<s, k>> \in [1..Cardinality(T) -> T] \X (0..Cardinality(T)) :
                        Range(s) = T}}

\* combined_text_for_variant (line 281) and variant_final (line 352) of a link
VariantOfLink(li) ==
    [present |-> KeywordsPresent(CombinedText(li.filename, li.txt)),
     variant |-> VariantFinal(li.txt, li.filename)]

InitVariant ==
    /\ MainIdle
    /\ \E T \in SUBSET VariantTokens :
          /\ Cardinality(T) <= MaxTokens
          /\ \E a \in Arrangements(T) :
             \E ext \in {<<".", "a", "p", "k">>, <<".", "z", "i", "p">>} :
                fn = [op |-> "variant", file_tokens |-> a.file_tokens,
                      link_tokens |-> a.link_tokens, ext |-> ext]
    /\ ret = <<>>

\* lines 279-354 for the link
ApplyVariant ==
    /\ fn.op = "variant"
    /\ ret = <<>>
    /\ ret' = <<VariantOfLink(VariantLink(fn.file_tokens, fn.link_tokens, fn.ext))>>
    /\ UNCHANGED <<pc, url_file, tracker_file, urls_to_process, page_idx,
                   tracker_data, all_updates_found, output_json, log, fn>>

NextVariant == ApplyVariant

SpecVariant == InitVariant /\ [][NextVariant]_vars

\* the strings of S in alphabetical order, capitals and small letters alike
RECURSIVE Alphabetical(_)
Alphabetical(S) ==
    IF S = {} THEN <<>>
    ELSE LET m == CHOOSE x \in S : \A y \in S : ~StrGreater(Lower(x), Lower(y))
         IN  <<m>> \o Alphabetical(S \ {m})

\* the tags lines 285-332 assign to the link of the state
AssignedTags ==
    VariantParts(CombinedText(VariantLink(fn.file_tokens, fn.link_tokens, fn.ext).filename,
                              VariantLink(fn.file_tokens, fn.link_tokens, fn.ext).txt),
                 fn.ext)

\* the keywords present in the combined text of the link an arrangement
\* of tokens makes
PresentIn(a, ext) ==
    KeywordsPresent(CombinedText(VariantLink(a.file_tokens, a.link_tokens, ext).filename,
                                 VariantLink(a.file_tokens, a.link_tokens, ext).txt))

\* one fixed link among the links made of the tokens of the state whose
\* combined text has the same keywords present as the link of the state:
\* the same link for every link of that class
ClassRepresentative ==
    CHOOSE a \in Arrangements(Range(fn.file_tokens) \cup Range(fn.link_tokens)) :
        PresentIn(a, fn.ext) = ret[1].present

\* C11: the variant label is the set of the assigned tags, sorted
\* alphabetically and joined with "-"; for a fixed file extension every
\* link with the same keywords present in its combined file name and link
\* text gets the same label, whatever the order of the keywords and
\* whichever of the two texts holds them (each link has the label of the
\* representative of its class, so all links of a class agree); the file name
\* app-mod-extra-arm64-v8a.apk with the localized mod-extra link text gives
\* "Arm64-v8a-Mod-Extra".
C11_VariantCanonicalForm ==
    (fn.op = "variant" /\ ret # <<>>) =>
        /\ AssignedTags # <<>> =>
              ret[1].variant = Join(Alphabetical(Range(AssignedTags)), <<"-">>)
        /\ \E a \in {ClassRepresentative} :
              VariantFinal(VariantLink(a.file_tokens, a.link_tokens, fn.ext).txt,
                           VariantLink(a.file_tokens, a.link_tokens, fn.ext).filename)
              = ret[1].variant
        /\ (/\ fn.file_tokens = <<<<"m", "o", "d", "-", "e", "x", "t", "r", "a">>, <<"a", "r", "m", "6", "4", "-", "v", "8", "a">>>>
            /\ fn.link_tokens = <<<<"FA_DAL", "FA_ALEF", "FA_NUN", "FA_LAM", "FA_VAV", "FA_DAL", " ", "FA_NUN", "FA_SIN", "FA_KHE", "FA_HE", " ", "FA_MIM", "FA_VAV", "FA_DAL", " ", "FA_ALEF", "FA_KAF", "FA_SIN", "FA_TE", "FA_RE", "FA_ALEF">>>>
            /\ fn.ext = <<".", "a", "p", "k">>)
           => ret[1].variant = <<"A", "r", "m", "6", "4", "-", "v", "8", "a", "-", "M", "o", "d", "-", "E", "x", "t", "r", "a">>

\* C11 witness: the link of the example is classified, two tags are joined
\* in alphabetical order although the file name has them in the other
\* order, and another order of its words has the same keywords present
C11_TagsSortedNotInTextOrder ==
    /\ fn.op = "variant"
    /\ ret # <<>>
    /\ fn.file_tokens = <<<<"m", "o", "d", "-", "e", "x", "t", "r", "a">>, <<"a", "r", "m", "6", "4", "-", "v", "8", "a">>>>
    /\ fn.link_tokens = <<<<"FA_DAL", "FA_ALEF", "FA_NUN", "FA_LAM", "FA_VAV", "FA_DAL", " ", "FA_NUN", "FA_SIN", "FA_KHE", "FA_HE", " ", "FA_MIM", "FA_VAV", "FA_DAL", " ", "FA_ALEF", "FA_KAF", "FA_SIN", "FA_TE", "FA_RE", "FA_ALEF">>>>
    /\ fn.ext = <<".", "a", "p", "k">>
    /\ ret[1].variant = <<"A", "r", "m", "6", "4", "-", "v", "8", "a", "-", "M", "o", "d", "-", "E", "x", "t", "r", "a">>
    /\ Len(AssignedTags) = 2
    /\ \E a \in Arrangements(Range(fn.file_tokens) \cup Range(fn.link_tokens)) :
          /\ a.file_tokens = <<<<"a", "r", "m", "6", "4", "-", "v", "8", "a">>, <<"FA_DAL", "FA_ALEF", "FA_NUN", "FA_LAM", "FA_VAV", "FA_DAL", " ", "FA_NUN", "FA_SIN", "FA_KHE", "FA_HE", " ", "FA_MIM", "FA_VAV", "FA_DAL", " ", "FA_ALEF", "FA_KAF", "FA_SIN", "FA_TE", "FA_RE", "FA_ALEF">>>>
          /\ a.link_tokens = <<<<"m", "o", "d", "-", "e", "x", "t", "r", "a">>>>
          /\ PresentIn(a, fn.ext) = ret[1].present

----------------------------------------------------------------------------
(* extract_version_from_text_or_url (lines 196-229) for every short link   *)
(* text and a pool of file names.                                          *)

ExtractChars == {"1", ".", "v", "a"}

\* the length of the enumerated link texts
MaxExtractLen == 4

NamedLinkTexts ==
    {<<"D", "o", "w", "n", "l", "o", "a", "d", " ", "A", "p", "p", " ", "v", "2", ".", "3", ".", "4", " ", "(", "f", "a", "r", "s", "r", "o", "i", "d", ".", "c", "o", "m", ")">>,
     <<"V", "2", ".", "0", " ", "M", "o", "d">>,
     <<"A", "p", "p", " ", "1", ".", "0", ".", "0", "_", "R", "C", "1">>,
     <<"FA_MIM", "FA_TE", "FA_NUN", " ", "FA_LAM", "FA_YE", "FA_NUN", "FA_KAF", " ", "FA_YE", "FA_ALEF", "FA_FE", "FA_TE", " ", "FA_NUN", "FA_SHIN", "FA_DAL">>}

LinkTextPool ==
    UNION {[1..n -> ExtractChars] : n \in 0..MaxExtractLen} \cup NamedLinkTexts

FilenamePool ==
    {<<>>,
     <<"a", "p", "p", "_", "v", "2", ".", "3", ".", "4", ".", "a", "p", "k">>,
     <<"2", ".", "1">>,
     <<"a", "2", ".", "1">>,
     <<"a", "p", "p", ".", "a", "p", "k">>,
     <<"a", "p", "p", "-", "2", ".", "2", "-", "b", "e", "t", "a", ".", "a", "p", "k">>}

InitExtract ==
    /\ MainIdle
    /\ fn \in [op : {"extract_version_from_text_or_url"},
               text_content : LinkTextPool,
               url_content : FilenamePool]
    /\ ret = <<>>

\* line 271: extract_version_from_text_or_url(link_text, filename)
ApplyExtract ==
    /\ fn.op = "extract_version_from_text_or_url"
    /\ ret = <<>>
    /\ ret' = <<extract_version_from_text_or_url(fn.text_content, fn.url_content)>>
    /\ UNCHANGED <<pc, url_file, tracker_file, urls_to_process, page_idx,
                   tracker_data, all_updates_found, output_json, log, fn>>

NextExtract == ApplyExtract

SpecExtract == InitExtract /\ [][NextExtract]_vars

\* the capture of the first rule of the sequence that matches, <<>> when
\* none does
FirstCapture(captures) ==
    IF \A i \in 1..Len(captures) : captures[i] = <<>> THEN <<>>
    ELSE captures[SetMin({i \in 1..Len(captures) : captures[i] # <<>>})]

\* C12: extract_version_from_text_or_url returns the capture of the first
\* rule that matches, in the order: the strict rules on the link text, the
\* strict rules on the file name, the fallback on the link text, the
\* fallback on the file name; the result never begins with v or V; it is
\* nothing when no rule matches either input; the link text
\* "Download App v2.3.4 (farsroid.com)" with the file app_v2.3.4.apk gives
\* "2.3.4".
C12_ExtractionCascade ==
    (fn.op = "extract_version_from_text_or_url" /\ ret # <<>>) =>
        /\ ret[1] = FirstCapture(<<StrictSearch(fn.text_content, 1),
                                   StrictSearch(fn.text_content, 2),
                                   StrictSearch(fn.url_content, 1),
                                   StrictSearch(fn.url_content, 2),
                                   FallbackSearch(fn.text_content),
                                   FallbackSearch(fn.url_content)>>)
        /\ ret[1] # <<>> => ret[1][1] \notin {"v", "V"}
        /\ (fn.text_content = <<"D", "o", "w", "n", "l", "o", "a", "d", " ", "A", "p", "p", " ", "v", "2", ".", "3", ".", "4", " ", "(", "f", "a", "r", "s", "r", "o", "i", "d", ".", "c", "o", "m", ")">> /\ fn.url_content = <<"a", "p", "p", "_", "v", "2", ".", "3", ".", "4", ".", "a", "p", "k">>) => ret[1] = <<"2", ".", "3", ".", "4">>

\* C12 witness: no strict rule matches the link text, the fallback would,
\* and the capture of the strict rule on the file name is returned
C12_FilenameStrictBeforeTextFallback ==
    /\ fn.op = "extract_version_from_text_or_url"
    /\ ret # <<>>
    /\ fn.text_content = <<"a", "1", ".", "1">>
    /\ fn.url_content = <<"2", ".", "1">>
    /\ StrictFirst(fn.text_content) = <<>>
    /\ FallbackSearch(fn.text_content) = <<"1", ".", "1">>
    /\ ret[1] = <<"2", ".", "1">>

----------------------------------------------------------------------------
(* main, run again after a run that saved its snapshot: the same URL file  *)
(* and the same pages, and versions_tracker.json as the run before left it *)

\* the number of runs of the program
MaxRuns == 2

RerunUrlFilePool ==
    {[exists |-> FALSE, urls |-> <<>>]}
    \cup {[exists |-> TRUE, urls |-> u] :
             u \in UNION {[1..n -> {p.url : p \in RerunPagePool}] : n \in 0..MaxPages}}

InitRerun ==
    /\ pc = "start"
    /\ url_file \in RerunUrlFilePool
    /\ tracker_file \in TrackerFilePool
    /\ urls_to_process = <<>>
    /\ page_idx = 0
    /\ tracker_data = <<>>
    /\ all_updates_found = <<>>
    /\ output_json = <<>>
    /\ log = <<>>
    /\ fn = [op |-> "main"]
    /\ ret = <<>>

\* lines 492-493: the program is started again after a run that wrote its
\* report and its snapshot; ret keeps what the finished run logged, found,
\* loaded and saved
RunAgain ==
    /\ pc = "done"
    /\ Len(ret) < MaxRuns - 1
    /\ ret' = Append(ret, [log |-> log,
                           updates |-> all_updates_found,
                           loaded |-> tracker_data,
                           saved |-> tracker_file.data])
    /\ pc' = "start"
    /\ urls_to_process' = <<>>
    /\ page_idx' = 0
    /\ tracker_data' = <<>>
    /\ all_updates_found' = <<>>
    /\ log' = <<>>
    /\ UNCHANGED <<url_file, tracker_file, output_json, fn>>

NextRerun ==
    \/ Next
    \/ RunAgain

SpecRerun == InitRerun /\ [][NextRerun]_vars

\* the run of the state has finished and is the run that followed a finished
\* run; both runs fetched the content of the same pages
SecondRunDone ==
    /\ fn.op = "main"
    /\ pc = "done"
    /\ Len(ret) = 1
    /\ Len(log) = Len(ret[1].log)
    /\ \A i \in DOMAIN log :
          (log[i].outcome = "no_content") = (ret[1].log[i].outcome = "no_content")

\* C13: a run that follows a finished run over the same page content, and
\* starts from the snapshot that run saved, emits no update record and
\* writes a snapshot equal to the one it loaded.
C13_RerunQuiescent ==
    SecondRunDone =>
        /\ tracker_data = ret[1].saved
        /\ all_updates_found = <<>>
        /\ output_json = << <<>> >>
        /\ tracker_file.data = tracker_data

\* C13 witness: the second run over the same pages reports the release
\* "0.0.0" again, which its snapshot already has, and reports the release
\* 2.1 that the first run reported too
C13_SecondRunReportsAgain ==
    /\ SecondRunDone
    /\ tracker_data = ret[1].saved
    /\ \E i \in DOMAIN all_updates_found :
          /\ all_updates_found[i].version = <<"0", ".", "0", ".", "0">>
          /\ all_updates_found[i].tracking_id \in DOMAIN tracker_data
          /\ tracker_data[all_updates_found[i].tracking_id] = <<"0", ".", "0", ".", "0">>
    /\ \E i \in DOMAIN all_updates_found :
       \E j \in DOMAIN ret[1].updates :
          /\ all_updates_found[i].version = <<"2", ".", "1">>
          /\ ret[1].updates[j] = all_updates_found[i]

\* the version the next snapshot has for the tracking_id of an update record
\* of the finished run
RecordedVersion(update_item) == tracker_file.data[update_item.tracking_id]

\* C14: after a run, for every tracking_id with one or more update records
\* the version stored in the next snapshot is the latest of them: no update
\* record of the run with the same tracking_id has a version that
\* compare_versions finds newer than the stored one.
C14_LatestVersionRecorded ==
    (fn.op = "main" /\ pc = "done") =>
        \A i \in DOMAIN all_updates_found :
           /\ all_updates_found[i].tracking_id \in DOMAIN tracker_file.data
           /\ \A j \in DOMAIN all_updates_found :
                 all_updates_found[j].tracking_id = all_updates_found[i].tracking_id
                 => ~compare_versions(all_updates_found[j].version,
                                      RecordedVersion(all_updates_found[i]))

\* C14 witness: a run reported 2.1 and then 2.0 for one tracking_id and
\* saved 2.0, the older of the two
C14_OlderVersionRecorded ==
    /\ fn.op = "main"
    /\ pc = "done"
    /\ \E i, j \in DOMAIN all_updates_found :
          /\ i < j
          /\ all_updates_found[i].tracking_id = all_updates_found[j].tracking_id
          /\ all_updates_found[i].version = <<"2", ".", "1">>
          /\ all_updates_found[j].version = <<"2", ".", "0">>
          /\ RecordedVersion(all_updates_found[i]) = <<"2", ".", "0">>
          /\ compare_versions(all_updates_found[i].version,
                              RecordedVersion(all_updates_found[i]))

----------------------------------------------------------------------------
(* compare_versions (lines 41-77) along a chain of three versions, none of *)
(* them empty or the sentinel "0.0.0".                                     *)

\* versions beside those of VersionTexts: two that parse, whose order as
\* numbers is not their order as strings, and two that do not parse
NamedChainVersions ==
    {<<"1", "0", ".", "0">>,
     <<"9", ".", "0">>,
     <<"2", ".", "0", "-", "m", "o", "d">>,
     <<"1", "0", ".">>}

ChainVersions ==
    (VersionTexts \cup NamedChainVersions) \ {<<>>, SENTINEL}

InitChain ==
    /\ MainIdle
    /\ fn \in [op : {"compare_versions_chain"},
               a : ChainVersions,
               b : ChainVersions,
               c : ChainVersions]
    /\ ret = <<>>

\* compare_versions for each step of the chain a, b, c, a and for b, a
ApplyChain ==
    /\ fn.op = "compare_versions_chain"
    /\ ret = <<>>
    /\ ret' = <<[ab |-> compare_versions(fn.a, fn.b),
                 bc |-> compare_versions(fn.b, fn.c),
                 ca |-> compare_versions(fn.c, fn.a),
                 ba |-> compare_versions(fn.b, fn.a)]>>
    /\ UNCHANGED <<pc, url_file, tracker_file, urls_to_process, page_idx,
                   tracker_data, all_updates_found, output_json, log, fn>>

NextChain == ApplyChain

SpecChain == InitChain /\ [][NextChain]_vars

\* C15: "is newer than" is acyclic over the non-empty versions other than
\* "0.0.0", parsable or not: no a, b, c with compare_versions(a, b),
\* compare_versions(b, c) and compare_versions(c, a) all true, and no a, b
\* with compare_versions(a, b) and compare_versions(b, a) both true.
C15_NewerThanAcyclic ==
    (fn.op = "compare_versions_chain" /\ ret # <<>>) =>
        /\ ~(ret[1].ab /\ ret[1].bc /\ ret[1].ca)
        /\ ~(ret[1].ab /\ ret[1].ba)

\* C15 witness: 10.0 is newer than 9.0 as a parsed version, 9.0 is newer
\* than 2.0-mod and 2.0-mod is newer than 10.0 as strings, because 2.0-mod
\* does not parse
C15_CycleThroughUnparsable ==
    /\ fn.op = "compare_versions_chain"
    /\ ret # <<>>
    /\ fn.a = <<"1", "0", ".", "0">>
    /\ fn.b = <<"9", ".", "0">>
    /\ fn.c = <<"2", ".", "0", "-", "m", "o", "d">>
    /\ parse(fn.a).ok
    /\ parse(fn.b).ok
    /\ ~parse(fn.c).ok
    /\ ret[1].ab
    /\ ret[1].bc
    /\ ret[1].ca

====
